---- MODULE Spec2Model ----
(***************************************************************************)
(* Model of the verenigingen-graph-dispatcher-service.                     *)
(*                                                                         *)
(* The service receives delta messages on /delta-inserts and               *)
(* /delta-deletes, a manual trigger on /manual-dispatch, and runs one scan *)
(* shortly after start.  Every entry point takes one Lock, runs its        *)
(* pipeline against the triplestore and releases the Lock.  The model has  *)
(* one step per awaited triplestore call and per awaited timer; the        *)
(* synchronous JavaScript that runs between two awaits is part of the step *)
(* that precedes it.                                                       *)
(***************************************************************************)
EXTENDS Naturals, Sequences, FiniteSets, TLC

(***************************************************************************)
(* Bounds of the model.                                                    *)
(***************************************************************************)
MaxRequests == 3
MaxDeltas == 1
MaxOwnershipChanges == 1
MaxOutages == 1
GateDeltas == 2
RetryRequests == 2
RetryOwnershipChanges == 2
DeletesRequests == 2
BatchingRequests == 1
ResolverRequests == 1
RetryScans == 2
MaxChangesets == 3
PoisonRequests == 2
RescanRequests == 2

(***************************************************************************)
(* env.js.  BATCH_SIZE is read from the environment (100 when it is not    *)
(* set); the modelled deployment sets it to the value below.               *)
(***************************************************************************)
BATCH_SIZE == 2

TEMP_GRAPH_INSERTS == [prefix |-> "ingest", id |-> "-inserts"]

TEMP_GRAPH_DELETES == [prefix |-> "ingest", id |-> "-deletes"]

ERROR_GRAPH == [prefix |-> "errors", id |-> ""]

ORGANISATION_GRAPH_PREFIX == "organizations/"

UUIDs == {"u1", "u2"}

\* `${env.ORGANISATION_GRAPH_PREFIX}${organisationUUID}`
OrganisationGraph(uuid) == [prefix |-> ORGANISATION_GRAPH_PREFIX, id |-> uuid]

\* A graph that is neither a temporary graph nor an organisation graph.
OTHER_GRAPH == [prefix |-> "public", id |-> ""]

Graphs ==
  {TEMP_GRAPH_INSERTS, TEMP_GRAPH_DELETES, OTHER_GRAPH}
    \cup {OrganisationGraph(u) : u \in UUIDs}

(***************************************************************************)
(* RDF terms.  A literal "x" and the literal "x"^^xsd:string are the same  *)
(* RDF term; the N3 writer prints the first form, formatTerm the second.   *)
(***************************************************************************)
XSD_STRING == "xsd:string"

RDF_TYPE == "rdf:type"

NamedNode(v) == [termType |-> "NamedNode", value |-> v, datatype |-> ""]

Literal(v, dt) == [termType |-> "Literal", value |-> v, datatype |-> dt]

Subjects == {"s1"}

FeitelijkeVereniging == "FeitelijkeVereniging"

Person == "Person"

Site == "Site"

Triple(s, p, o) == [subject |-> s, predicate |-> p, object |-> o]

\* The triples of the modelled data: a subject that can be typed as an
\* association and as a site, and its name.
IsAssociation == Triple("s1", RDF_TYPE, NamedNode(FeitelijkeVereniging))

IsSite == Triple("s1", RDF_TYPE, NamedNode(Site))

HasName == Triple("s1", "name", Literal("n", XSD_STRING))

\* A type that no entry of pathsToAdministrativeUnit is about.
Unconfigured == "Unconfigured"

IsUnconfigured == Triple("s1", RDF_TYPE, NamedNode(Unconfigured))

IsPerson == Triple("s1", RDF_TYPE, NamedNode(Person))

Triples == {IsAssociation, IsSite, HasName}

\* What one delta of the upstream consumer can carry.
Feed == {{IsAssociation, HasName}, {HasName}, {IsSite}}

Quad(t, g) ==
  [subject |-> t.subject, predicate |-> t.predicate, object |-> t.object,
   graph |-> g]

TripleOf(q) == Triple(q.subject, q.predicate, q.object)

(***************************************************************************)
(* config/pathsToAdministrativeUnit: the sixteen entries of the table in   *)
(* the order of the file, each reduced to its type and its                 *)
(* allowedInMultipleOrgs flag.  The query of entry i for a subject is      *)
(* answered by pathResult[subject][i].                                     *)
(***************************************************************************)
PathsToAdministrativeUnit ==
  << [type |-> FeitelijkeVereniging, allowedInMultipleOrgs |-> FALSE],
     [type |-> Person, allowedInMultipleOrgs |-> TRUE],
     [type |-> Site, allowedInMultipleOrgs |-> TRUE],
     [type |-> Site, allowedInMultipleOrgs |-> TRUE],
     [type |-> "Doelgroep", allowedInMultipleOrgs |-> TRUE],
     [type |-> "Concept", allowedInMultipleOrgs |-> TRUE],
     [type |-> "TypeVestiging", allowedInMultipleOrgs |-> TRUE],
     [type |-> "Address", allowedInMultipleOrgs |-> TRUE],
     [type |-> "ContactPoint", allowedInMultipleOrgs |-> TRUE],
     [type |-> "ContactPoint", allowedInMultipleOrgs |-> TRUE],
     [type |-> "ContactPoint", allowedInMultipleOrgs |-> TRUE],
     [type |-> "Identifier", allowedInMultipleOrgs |-> TRUE],
     [type |-> "GestructureerdeIdentificator", allowedInMultipleOrgs |-> TRUE],
     [type |-> "Membership", allowedInMultipleOrgs |-> TRUE],
     [type |-> Person, allowedInMultipleOrgs |-> TRUE],
     [type |-> Person, allowedInMultipleOrgs |-> TRUE] >>


(***************************************************************************)
(* State.                                                                  *)
(***************************************************************************)
VARIABLES
  triplestore,   \* the quads held by the backing store (error graph apart)
  errorGraph,    \* requests whose error record was written to ERROR_GRAPH (never)
  pathResult,    \* pathResult[s][i]: rows the query of pta[i] returns for s
  storeUp,       \* FALSE while every query and update to the store fails
  poisoned,      \* the triples whose DELETE DATA the store always rejects
  pta,           \* the imported path configuration
  env,           \* env.WRITE_ERRORS and env.BATCH_SIZE
  feed,          \* the sets of triples a delta can carry
  lock,          \* the Lock of app.js
  rq,            \* the requests: handler invocations and the startup scan
  notifier,      \* delta messages the delta-notifier still has to post
  started,       \* the startup timer has fired
  scanAndProcessTimer, \* the pending follow-up timer of dispatch
  process,       \* the Node process: "running", "rejected" once a rejection
                 \* is unhandled, "exited" once Node has ended it with code 1
  budget         \* requests, deltas, ownership changes and outages left

vars ==
  << triplestore, poisoned, errorGraph, pathResult, storeUp, pta, env, feed, lock, rq,
     notifier, started, scanAndProcessTimer, process, budget >>

config == << pta, env, feed, poisoned >>

Requests == 1..MaxRequests

(***************************************************************************)
(* Sequences and sets.                                                     *)
(***************************************************************************)
Range(seq) == {seq[i] : i \in 1..Len(seq)}

\* Every order in which the elements of a set can be listed.
Orders(S) ==
  {f \in [1..Cardinality(S) -> S] : \A i, j \in 1..Cardinality(S) : i # j => f[i] # f[j]}

Min(a, b) == IF a < b THEN a ELSE b

\* Math.ceil(n / 2)
CeilHalf(n) == (n + 1) \div 2

(***************************************************************************)
(* Queries on the triplestore.                                             *)
(***************************************************************************)
GraphContents(store, g) == {TripleOf(q) : q \in {x \in store : x.graph = g}}

\* ?subject rdf:type ?type, in any graph
TypesOf(store, s) ==
  {q.object.value : q \in {x \in store : x.subject = s /\ x.predicate = RDF_TYPE}}

\* getTypesForSubjects: SELECT DISTINCT ?subject ?type for the given subjects
TypesForSubjects(store, subjects) ==
  UNION {{[subject |-> s, type |-> ty] : ty \in TypesOf(store, s)} : s \in subjects}

\* getInsertSubjectsWithType: subjects of the temporary insert graph, typed
InsertSubjectsWithType(store) ==
  TypesForSubjects(store, {q.subject : q \in {x \in store : x.graph = TEMP_GRAPH_INSERTS}})

\* getDataForSubject(subject, graph)
DataForSubject(store, s, g) == {t \in GraphContents(store, g) : t.subject = s}

\* A graph search that only looks in the deletes graph and the partition graphs.
GraphsForTriplesOwn(store, given) ==
  {x \in store : /\ TripleOf(x) \in {TripleOf(q) : q \in given}
                  /\ x.graph \notin {TEMP_GRAPH_INSERTS, OTHER_GRAPH}}

\* getGraphsForTriples: every quad of the store whose triple is in the given store
GraphsForTriples(store, given) ==
  {x \in store : TripleOf(x) \in {TripleOf(q) : q \in given}}

\* A query that returns the quads of the graph only, as getData does.
TriplesOfGraphOnly(store, g) == {x \in store : x.graph = g}

\* getTriplesAndAllGraphs(graph)
TriplesAndAllGraphs(store, g) ==
  {x \in store : TripleOf(x) \in GraphContents(store, g)}

(***************************************************************************)
(* Term formatting.  The N3 writer leaves the datatype of an xsd:string    *)
(* literal out, formatTerm writes it; the store reads both as one term.    *)
(***************************************************************************)
\* rst.termToString and the N3 writer: the text of a term, with datatype the
\* annotation that is written after the value
WriterTerm(term) ==
  IF term.termType = "Literal" /\ term.datatype = XSD_STRING
  THEN [term EXCEPT !.datatype = ""]
  ELSE term

\* `${rst.termToString(term)}^^${rst.termToString(term.datatype)}` for strings
formatTerm(term) ==
  IF term.datatype = XSD_STRING
  THEN [WriterTerm(term) EXCEPT !.datatype = term.datatype]
  ELSE WriterTerm(term)

StoreTerm(written) ==
  IF written.termType = "Literal" /\ written.datatype = ""
  THEN [written EXCEPT !.datatype = XSD_STRING]
  ELSE written

\* The triples a DELETE DATA / INSERT DATA written by the N3 writer names.
WrittenTriples(ts) == {[t EXCEPT !.object = StoreTerm(WriterTerm(t.object))] : t \in ts}

\* The triples of the second DELETE DATA of deleteTriplesFromGraphWithoutBatching.
StringTypedTriples(ts) ==
  {[t EXCEPT !.object = StoreTerm(formatTerm(t.object))] :
     t \in {x \in ts : x.object.datatype = XSD_STRING}}

\* An INSERT DATA whose plain literals the store keeps apart from xsd:string ones.
InsertDataAsWritten(store, g, ts) ==
  store \cup {Quad([t EXCEPT !.object = WriterTerm(t.object)], g) : t \in ts}

InsertDataUpdate(store, g, ts) == store \cup {Quad(t, g) : t \in WrittenTriples(ts)}

DeleteDataUpdate(store, g, ts) == store \ {Quad(t, g) : t \in ts}


(***************************************************************************)
(* A request: one invocation of a POST handler or of                       *)
(* encapsulatedScanAndProcess, with the local variables of the functions   *)
(* it is in.  pc names the call the request is awaiting.                   *)
(***************************************************************************)
NoRow == [subject |-> "", type |-> ""]

NoResults == [inserts |-> <<>>, deletes |-> <<>>]

NoRequest ==
  [ kind |-> "none", pc |-> "none", responded |-> FALSE,
    body |-> <<>>,               \* req.body
    flat |-> <<>>,               \* flattenedChangesets still to process
    flattened |-> <<>>,          \* flattenedChangesets as flattenChangesets returned it
    processDeletes |-> FALSE,    \* argument of scanAndProcess
    storeWithAllGraphs |-> {},   \* deleteTriples
    graphs |-> {},               \* deleteData: graphs still to delete from
    store |-> {},                \* deleteFunction: its argument store
    triples |-> <<>>, start |-> 0, batchSize |-> 0,   \* deleteFunction
    batches |-> <<>>,   \* the batches this call of deleteFunction has deleted
    slept |-> FALSE,    \* sleep() has resolved since the request's last update
    graph |-> OTHER_GRAPH, ret |-> "none",
    subjects |-> {},             \* processInserts
    rows |-> {},                 \* dispatch: subjectsWithTypes still to do
    row |-> NoRow, cfg |-> 0,    \* getOrganisationUUIDs
    organisationUUIDs |-> <<>>,
    todo |-> <<>>,               \* dispatch: organisationUUIDs still to move to
    data |-> {}, literalTriples |-> <<>>,   \* moveSubjectBetweenGraphs
    staged |-> {},               \* history: the data of the subject's first move
    results |-> NoResults, error |-> "none",
    message |-> <<>>,            \* the message of the error, as pieces of text
    thrownAt |-> "none",         \* the awaited call that threw the error
    unhandled |-> FALSE ]        \* logError was rejected, and nothing handles that

HttpKinds == {"delta-inserts", "delta-deletes", "manual-dispatch"}

DeltaKinds == {"delta-inserts", "delta-deletes"}

ScanKinds == {"manual-dispatch", "startup", "follow-up"}

\* The labels at which a request is between lock.acquire() and lock.release().
CriticalSection ==
  { "acquired", "resumed", "getGraphsForTriples", "getTriplesAndAllGraphs",
    "deleteFunction", "deleteData", "deleteDataStrings", "getTypesForSubjects",
    "getInsertSubjectsWithType", "getOrganisationUUIDs", "getDataForSubject",
    "insertFunction", "insertData" }

Result(success, mode, reason, row, uuids, triple, graphs) ==
  [ success |-> success, mode |-> mode, reason |-> reason,
    subject |-> row.subject, type |-> row.type,
    organisationUUIDs |-> uuids, triple |-> triple, graphs |-> graphs ]

NoTriple == Triple("", "", NamedNode(""))

\* The results dispatch pushes for one subject.
Moved(row, uuid) ==
  Result(TRUE, "Insert", "Data successfully moved for this subject.", row, <<uuid>>,
         NoTriple, {})

TooMany(row, uuids) ==
  Result(FALSE, "Insert",
         "Too many possible organisations (and data not allowed in multiple organisations)",
         row, uuids, NoTriple, {})

NotFound(row) ==
  Result(FALSE, "Insert",
         "No organisation found. This could be normal. This subject is tried again later. It was about subject: "
           \o row.subject \o " for type: " \o row.type,
         row, <<>>, NoTriple, {})

PushInsert(q, res) == [q EXCEPT !.results.inserts = Append(@, res)]

PushDelete(q, res) == [q EXCEPT !.results.deletes = Append(@, res)]

(***************************************************************************)
(* The synchronous code between two awaits.  Each operator takes the       *)
(* request at some point of the code and yields the requests it can be at  *)
(* the next await (several where an iteration order is the store's).       *)
(***************************************************************************)
RECURSIVE ProcessDeletes(_), NextRow(_)

\* The pipeline function returns its results to the entry point.
Return(q) == {[q EXCEPT !.pc = "return"]}

\* The message of the error a rejected query or update throws.
Rejection == << "the triplestore rejected the request" >>

\* String(err) of an Error
ErrorToString(message) == << "Error: " >> \o message

\* rst.termToString
TermToString(term) ==
  LET w == WriterTerm(term) IN
  IF w.termType = "Literal"
  THEN "\"" \o w.value \o "\"" \o (IF w.datatype = "" THEN "" ELSE "^^<" \o w.datatype \o ">")
  ELSE "<" \o w.value \o ">"

\* deleteFunction: tripleString
TripleString(t) ==
  "<" \o t.subject \o "> <" \o t.predicate \o "> " \o TermToString(t.object)

\* deleteFunction: the text that names the triple
CouldNotBeRemoved(t) ==
  << "The following triple could not be removed from the triplestore:",
     TripleString(t),
     "This might be because of a network issue, a syntax issue or because the triple is too long." >>

\* new Error(message, options): the message is the first argument as a
\* string; a second argument that is a string is not used.
NewError(message, options) == ErrorToString(message)

\* An exception with this message leaves the pipeline function.
ThrowWith(q, err, message) ==
  {[q EXCEPT !.pc = "throw", !.error = err, !.message = message, !.results = NoResults,
             !.thrownAt = q.pc]}

\* A rejected query or update: its exception leaves the pipeline function.
Throw(q, err) == ThrowWith(q, err, Rejection)

\* processDeltaChangesets: the loop goes to the next flattened changeset
NextChangeset(q) ==
  LET rest == [q EXCEPT !.flat = Tail(@)] IN
  IF rest.flat = <<>> THEN Return(rest) ELSE ProcessDeletes(rest)

\* dispatch returns; needsToSchedule is false at this point
AfterDispatch(q) ==
  LET q1 == [q EXCEPT !.rows = {}, !.row = NoRow, !.cfg = 0,
                      !.organisationUUIDs = <<>>, !.subjects = {}] IN
  IF q.kind \in DeltaKinds THEN NextChangeset(q1) ELSE Return(q1)

\* dispatch: the loop over organisationUUIDs calls moveSubjectBetweenGraphs
NextMove(q) ==
  IF q.todo = <<>> THEN NextRow(q) ELSE {[q EXCEPT !.pc = "getDataForSubject"]}

\* moveSubjectBetweenGraphs has returned: dispatch pushes a success result
MoveDone(q) ==
  NextMove([PushInsert(q, Moved(q.row, Head(q.todo)))
              EXCEPT !.todo = Tail(@), !.data = {}, !.literalTriples = <<>>,
                     !.staged = IF Tail(q.todo) = <<>> THEN {} ELSE @])

\* await sleep(env.SLEEP_BETWEEN_BATCHES) has resolved
Slept(q) == [q EXCEPT !.slept = TRUE]

\* mas.updateSudo is called: the delay before it is used up
Sent(q) == [q EXCEPT !.slept = FALSE]

\* deleteData(store, graph) enters deleteFunction for one graph, which
\* awaits sleep(env.SLEEP_BETWEEN_BATCHES) before anything else
StartDeleteFunction(q, ts, g, ret) ==
  { [q EXCEPT !.pc = "deleteFunction", !.store = ts, !.graph = g, !.ret = ret] }

\* moveSubjectBetweenGraphs: the loop over literalTriples
NextLiteral(q) ==
  IF q.literalTriples = <<>> THEN MoveDone(q)
  ELSE StartDeleteFunction(q, {Head(q.literalTriples)}, TEMP_GRAPH_INSERTS, "literal")

\* A move that deletes only the literal triples from the original graph.
AfterInsertDataLiterals(q) ==
  LET lits == {t \in q.data : t.object.termType = "Literal"}
  IN UNION { NextLiteral([q EXCEPT !.literalTriples = order]) : order \in Orders(lits) }

\* moveSubjectBetweenGraphs after the inserts: split off the literals and
\* delete the rest from the original graph
AfterInsertData(q) ==
  LET lits == {t \in q.data : t.object.termType = "Literal"}
      rest == q.data \ lits
  IN UNION { IF rest = {}
             THEN NextLiteral([q EXCEPT !.literalTriples = order])
             ELSE StartDeleteFunction([q EXCEPT !.literalTriples = order],
                                      rest, TEMP_GRAPH_INSERTS, "move")
             : order \in Orders(lits) }

\* A find that returns the last pathConfig of the type.
FindConfigLast(table, type) ==
  LET hits == {i \in 1..Len(table) : table[i].type = type} IN
  IF hits = {} THEN 0 ELSE CHOOSE i \in hits : \A j \in hits : i >= j

\* pta.find((cfg) => cfg.type.value === type.value)
FindConfig(table, type) ==
  LET hits == {i \in 1..Len(table) : table[i].type = type} IN
  IF hits = {} THEN 0 ELSE CHOOSE i \in hits : \A j \in hits : i <= j

\* config?.allowedInMultipleOrgs
AllowedInMultipleOrgs(table, type) ==
  LET i == FindConfig(table, type) IN
  IF i = 0 THEN FALSE ELSE table[i].allowedInMultipleOrgs

\* A dispatch that moves to the first organisation whenever there is one.
DecideFirst(q) ==
  IF Len(q.organisationUUIDs) >= 1
  THEN NextMove([q EXCEPT !.organisationUUIDs = <<Head(@)>>, !.todo = <<Head(q.organisationUUIDs)>>])
  ELSE NextRow(PushInsert(q, NotFound(q.row)))

\* A dispatch that reports nothing for a subject without organisation.
DecideQuietly(q) ==
  LET n == Len(q.organisationUUIDs)
      allowed == AllowedInMultipleOrgs(pta, q.row.type)
  IN IF n = 1 \/ (n > 1 /\ allowed)
     THEN NextMove([q EXCEPT !.todo = q.organisationUUIDs])
     ELSE IF n > 1 /\ ~allowed
     THEN NextRow(PushInsert(q, TooMany(q.row, q.organisationUUIDs)))
     ELSE NextRow(q)

\* dispatch: the decision on the organisationUUIDs of one subject
Decide(q) ==
  LET n == Len(q.organisationUUIDs)
      allowed == AllowedInMultipleOrgs(pta, q.row.type)
  IN IF n = 1 \/ (n > 1 /\ allowed)
     THEN NextMove([q EXCEPT !.todo = q.organisationUUIDs])
     ELSE IF n > 1 /\ ~allowed
     THEN NextRow(PushInsert(q, TooMany(q.row, q.organisationUUIDs)))
     ELSE NextRow(PushInsert(q, NotFound(q.row)))

\* A resolver that stops at the first pathConfig of the type.
NextPathFirstOnly(table, type, i) ==
  LET hits == {j \in 1..Len(table) : table[j].type = type} IN
  IF i > 0 \/ hits = {} THEN 0 ELSE CHOOSE j \in hits : \A k \in hits : j <= k

\* getOrganisationUUIDs: the next pathConfig of pta, after index i, whose type
\* is the given type (0 when there is none)
NextPath(table, type, i) ==
  LET hits == {j \in (i + 1)..Len(table) : table[j].type = type} IN
  IF hits = {} THEN 0 ELSE CHOOSE j \in hits : \A k \in hits : j <= k

\* getOrganisationUUIDs from path i on: query the next matching path, or
\* return the set to dispatch
ResolveFrom(q, i) ==
  LET j == NextPath(pta, q.row.type, i) IN
  IF j = 0 THEN Decide([q EXCEPT !.cfg = 0])
  ELSE {[q EXCEPT !.pc = "getOrganisationUUIDs", !.cfg = j]}

\* dispatch: the loop over subjectsWithTypes
NextRow(q) ==
  IF q.rows = {} THEN AfterDispatch(q)
  ELSE UNION { ResolveFrom([q EXCEPT !.rows = @ \ {row}, !.row = row,
                                     !.organisationUUIDs = <<>>], 0)
               : row \in q.rows }

\* processInserts(changeset.inserts)
ProcessInserts(q) ==
  LET inserts == {x \in Range(Head(q.flat).inserts) : x.graph = TEMP_GRAPH_INSERTS} IN
  IF inserts = {}
  THEN NextChangeset(PushInsert(q, Result(FALSE, "Insert", "Nothing in the inserts to process.",
                                          NoRow, <<>>, NoTriple, {})))
  ELSE {[q EXCEPT !.pc = "getTypesForSubjects",
                  !.subjects = {x.subject : x \in inserts}]}

\* deleteTriples has returned to processDeltaChangesets or to scanAndProcess
AfterDeleteTriples(q) ==
  LET q1 == [q EXCEPT !.storeWithAllGraphs = {}, !.graphs = {}, !.triples = <<>>,
                      !.start = 0, !.batchSize = 0, !.graph = OTHER_GRAPH,
                      !.ret = "none"] IN
  IF q.kind \in DeltaKinds THEN ProcessInserts(q1)
  ELSE {[q1 EXCEPT !.pc = "getInsertSubjectsWithType"]}

\* deleteData(store): the loop over store.getGraphs()
NextGraph(q) ==
  IF q.graphs = {} THEN AfterDeleteTriples(q)
  ELSE UNION { StartDeleteFunction([q EXCEPT !.graphs = @ \ {g}],
                                   GraphContents(q.storeWithAllGraphs, g), g, "graphs")
               : g \in q.graphs }

\* deleteFunction has returned to its caller
AfterDeleteFunction(q) ==
  LET q1 == [q EXCEPT !.store = {}, !.triples = <<>>, !.start = 0, !.batchSize = 0,
                      !.batches = <<>>, !.graph = OTHER_GRAPH, !.ret = "none"] IN
  CASE q.ret = "graphs" -> NextGraph(q1)
    [] q.ret = "move" -> NextLiteral(q1)
    [] q.ret = "literal" -> NextLiteral([q1 EXCEPT !.literalTriples = Tail(@)])

\* deleteFunction: triples.slice(start, start + batchSize)
Batch(q) ==
  {q.triples[i] : i \in (q.start + 1)..Min(q.start + q.batchSize, Len(q.triples))}

\* A loop that goes on with the batch size the last batch had.
BatchDoneSameSize(q) ==
  LET q1 == [q EXCEPT !.start = @ + q.batchSize, !.batches = Append(@, Batch(q))] IN
  IF q1.start < Len(q1.triples) THEN {[q1 EXCEPT !.pc = "deleteData"]}
  ELSE AfterDeleteFunction(q1)

\* A loop that goes one triple further after any batch.
BatchDoneByOne(q) ==
  LET q1 == [q EXCEPT !.start = @ + 1, !.batchSize = env.BATCH_SIZE,
                      !.batches = Append(@, Batch(q))] IN
  IF q1.start < Len(q1.triples) THEN {[q1 EXCEPT !.pc = "deleteData"]}
  ELSE AfterDeleteFunction(q1)

\* deleteFunction: a batch was deleted
BatchDone(q) ==
  LET q1 == [q EXCEPT !.start = @ + q.batchSize, !.batchSize = env.BATCH_SIZE,
                      !.batches = Append(@, Batch(q))] IN
  IF q1.start < Len(q1.triples) THEN {[q1 EXCEPT !.pc = "deleteData"]}
  ELSE AfterDeleteFunction(q1)

\* A catch block that gives up at the first failure, whatever the batch size.
BatchFailedAtOnce(q) ==
  ThrowWith(q, "fatal", NewError(Rejection, CouldNotBeRemoved(q.triples[q.start + 1])))

\* A catch block that tries the batch again as it was.
BatchFailedRetries(q) == {[q EXCEPT !.pc = "deleteData"]}

\* A catch block that swallows the error of a batch of one triple and goes on.
BatchFailedSwallows(q) ==
  IF q.batchSize > 1
  THEN {[q EXCEPT !.pc = "deleteData", !.batchSize = CeilHalf(@)]}
  ELSE BatchDone(q)

\* deleteFunction: the catch block
BatchFailed(q) ==
  IF q.batchSize > 1
  THEN {[q EXCEPT !.pc = "deleteData", !.batchSize = CeilHalf(@)]}
  ELSE ThrowWith(q, "fatal", NewError(Rejection, CouldNotBeRemoved(q.triples[q.start + 1])))


\* The graph N3 takes for a quad given without one.
DEFAULT_GRAPH == [prefix |-> "", id |-> ""]

(***************************************************************************)
(* The iteration order of an N3.Store.  The store is an index by graph,    *)
(* subject, predicate and object, and each level is iterated in the order  *)
(* in which the store first met the terms: the quads come graph by graph,  *)
(* within a graph subject by subject, and so on.                           *)
(***************************************************************************)
\* The place at which the quads added in the order seq first have the value
\* that x has under key.
FirstMet(seq, key, x) ==
  CHOOSE i \in 1..Len(seq) :
    seq[i][key] = x[key] /\ \A j \in 1..(i - 1) : seq[j][key] # x[key]

\* The store filled by addQuad in the order seq iterates x before y.
IteratedBefore(seq, x, y) ==
  LET g(z) == FirstMet(seq, "graph", z)
      su(z) == FirstMet(seq, "subject", z)
      pr(z) == FirstMet(seq, "predicate", z)
      ob(z) == FirstMet(seq, "object", z)
  IN \/ g(x) < g(y)
     \/ g(x) = g(y) /\ su(x) < su(y)
     \/ g(x) = g(y) /\ su(x) = su(y) /\ pr(x) < pr(y)
     \/ g(x) = g(y) /\ su(x) = su(y) /\ pr(x) = pr(y) /\ ob(x) < ob(y)

\* [...store] of the store filled by addQuad in the order seq
StoreOrder(seq) ==
  CHOOSE f \in Orders(Range(seq)) :
    \A i, j \in 1..Len(f) : i < j => IteratedBefore(seq, f[i], f[j])

\* The triples come subject by subject and, for a subject, predicate by
\* predicate.
Grouped(ts) ==
  \A i, j, k \in 1..Len(ts) :
    (i < j /\ j < k /\ ts[i].subject = ts[k].subject) =>
      /\ ts[j].subject = ts[i].subject
      /\ ts[i].predicate = ts[k].predicate => ts[j].predicate = ts[i].predicate

\* The quads of S, graph by graph in the order gs, the triples of each graph
\* in the order ts.
RECURSIVE GraphByGraph(_, _, _)
GraphByGraph(S, gs, ts) ==
  IF gs = <<>> THEN <<>>
  ELSE SelectSeq([i \in 1..Len(ts) |-> Quad(ts[i], Head(gs))], LAMBDA x : x \in S)
         \o GraphByGraph(S, Tail(gs), ts)

\* [...store] of a store filled from a query answer with the quads S, whose
\* order is up to the triplestore.
StoreOrders(S) ==
  { GraphByGraph(S, gs, ts) :
      gs \in Orders({x.graph : x \in S}),
      ts \in {o \in Orders({TripleOf(x) : x \in S}) : Grouped(o)} }

\* store.removeQuad(subject, predicate, object): no graph is given
RemoveQuad(store, t) == store \ {Quad(t, DEFAULT_GRAPH)}

\* deleteTriples: the organisation graphs storeWithAllGraphs holds the triple in
OrganisationGraphsOf(all, t) ==
  { g \in {x.graph : x \in {y \in all : TripleOf(y) = t}} :
      /\ g # TEMP_GRAPH_DELETES
      /\ g # TEMP_GRAPH_INSERTS
      /\ g.prefix = ORGANISATION_GRAPH_PREFIX }

RECURSIVE RemoveQuads(_, _)
RemoveQuads(store, ts) ==
  IF ts = {} THEN store
  ELSE LET t == CHOOSE x \in ts : TRUE IN RemoveQuads(RemoveQuad(store, t), ts \ {t})

RECURSIVE PushDeletes(_, _)
PushDeletes(q, quads) ==
  IF quads = <<>> THEN q
  ELSE PushDeletes(
         PushDelete(q, Result(FALSE, "Delete",
                              "More than one organisation graph found. Not removing triple.",
                              NoRow, <<>>, TripleOf(Head(quads)),
                              OrganisationGraphsOf(q.storeWithAllGraphs, TripleOf(Head(quads))))),
         Tail(quads))

\* for (const triple of store): processDeletes has filled the store from
\* changeset.deletes, scanAndProcess got it from getTriplesAndAllGraphs
IterationsOf(q, store) ==
  IF q.kind \in DeltaKinds
  THEN {StoreOrder(SelectSeq(Head(q.flat).deletes, LAMBDA x : x \in store))}
  ELSE StoreOrders(store)

\* deleteTriples(store, doGraphSearch) once storeWithAllGraphs is known; the
\* results are pushed in the order in which the loop over the store meets
\* the problematic triples
DeleteTriples(q, store, all) ==
  LET problematic(x) == Cardinality(OrganisationGraphsOf(all, TripleOf(x))) > 1
      problematicTriples == {x \in store : problematic(x)}
      left == RemoveQuads(all, {TripleOf(x) : x \in problematicTriples})
  IN UNION { LET q1 == PushDeletes([q EXCEPT !.storeWithAllGraphs = all],
                                   SelectSeq(order, problematic))
                 q2 == [q1 EXCEPT !.storeWithAllGraphs = left,
                                  !.graphs = {x.graph : x \in left}]
             IN IF left = {} THEN AfterDeleteTriples(q2) ELSE NextGraph(q2)
             : order \in IterationsOf(q, store) }

\* processDeletes(changeset.deletes)
ProcessDeletes(q) ==
  LET deletes == {x \in Range(Head(q.flat).deletes) : x.graph = TEMP_GRAPH_DELETES} IN
  IF deletes = {}
  THEN ProcessInserts(PushDelete(q, Result(FALSE, "Delete", "Nothing in the deletes to process.",
                                           NoRow, <<>>, NoTriple, {})))
  ELSE {[q EXCEPT !.pc = "getGraphsForTriples", !.storeWithAllGraphs = deletes]}

\* A loop body that puts every changeset's deletes and inserts in batches of
\* their own, without merging.
FlattenApart(flattens, changeset) ==
  LET withDeletes ==
        IF Len(changeset.deletes) > 0
        THEN Append(flattens, [inserts |-> <<>>, deletes |-> changeset.deletes])
        ELSE flattens
  IN IF Len(changeset.inserts) > 0
     THEN Append(withDeletes, [inserts |-> changeset.inserts, deletes |-> <<>>])
     ELSE withDeletes

\* A loop body that adds to the first batch of the kind, wherever it is.
FlattenGrouped(flattens, changeset) ==
  LET First(fs, kind) == {k \in 1..Len(fs) : Len(fs[k][kind]) > 0}
      Add(fs, kind, items, new) ==
        IF Len(items) = 0 THEN fs
        ELSE IF First(fs, kind) = {} THEN Append(fs, new)
        ELSE LET k == CHOOSE x \in First(fs, kind) : \A y \in First(fs, kind) : x <= y
             IN [fs EXCEPT ![k][kind] = @ \o items]
      withDeletes == Add(flattens, "deletes", changeset.deletes,
                         [inserts |-> <<>>, deletes |-> changeset.deletes])
  IN Add(withDeletes, "inserts", changeset.inserts,
         [inserts |-> changeset.inserts, deletes |-> <<>>])

\* A loop body that puts a new batch in front of the batches (unshift).
FlattenUnshift(flattens, changeset) ==
  LET n == Len(flattens)
      withDeletes ==
        IF Len(changeset.deletes) > 0
        THEN IF n = 0 \/ Len(flattens[n].deletes) <= 0
             THEN << [inserts |-> <<>>, deletes |-> changeset.deletes] >> \o flattens
             ELSE [flattens EXCEPT ![n].deletes = @ \o changeset.deletes]
        ELSE flattens
      m == Len(withDeletes)
  IN IF Len(changeset.inserts) > 0
     THEN IF m = 0 \/ Len(withDeletes[m].inserts) <= 0
          THEN << [inserts |-> changeset.inserts, deletes |-> <<>>] >> \o withDeletes
          ELSE [withDeletes EXCEPT ![m].inserts = @ \o changeset.inserts]
     ELSE withDeletes

\* A loop body that assigns to latest where the code concatenates.
FlattenOverwrites(flattens, changeset) ==
  LET n == Len(flattens)
      withDeletes ==
        IF Len(changeset.deletes) > 0
        THEN IF n = 0 \/ Len(flattens[n].deletes) <= 0
             THEN Append(flattens, [inserts |-> <<>>, deletes |-> changeset.deletes])
             ELSE [flattens EXCEPT ![n].deletes = changeset.deletes]
        ELSE flattens
  IN IF Len(changeset.inserts) > 0
     THEN IF n = 0 \/ Len(withDeletes[n].inserts) <= 0
          THEN Append(withDeletes, [inserts |-> changeset.inserts, deletes |-> <<>>])
          ELSE [withDeletes EXCEPT ![n].inserts = changeset.inserts]
     ELSE withDeletes

\* flattenChangesets: the body of the loop for one changeset.  latest is
\* read once, before the changeset's deletes are looked at.
FlattenOne(flattens, changeset) ==
  LET n == Len(flattens)
      withDeletes ==
        IF Len(changeset.deletes) > 0
        THEN IF n = 0 \/ Len(flattens[n].deletes) <= 0
             THEN Append(flattens, [inserts |-> <<>>, deletes |-> changeset.deletes])
             ELSE [flattens EXCEPT ![n].deletes = @ \o changeset.deletes]
        ELSE flattens
  IN IF Len(changeset.inserts) > 0
     THEN IF n = 0 \/ Len(withDeletes[n].inserts) <= 0
          THEN Append(withDeletes, [inserts |-> changeset.inserts, deletes |-> <<>>])
          ELSE [withDeletes EXCEPT ![n].inserts = @ \o changeset.inserts]
     ELSE withDeletes

RECURSIVE FlattenFrom(_, _)
FlattenFrom(flattens, changesets) ==
  IF changesets = <<>> THEN flattens
  ELSE FlattenFrom(FlattenOne(flattens, Head(changesets)), Tail(changesets))

flattenChangesets(changesets) == FlattenFrom(<<>>, changesets)

\* processDeltaChangesets(changesets) up to its first await
ProcessDeltaChangesets(q, changesets) ==
  LET flattenedChangesets == flattenChangesets(changesets)
      q1 == [q EXCEPT !.flat = flattenedChangesets, !.flattened = flattenedChangesets] IN
  IF q1.flat = <<>> THEN Return(q1) ELSE ProcessDeletes(q1)

\* POST /delta-deletes: the deletes arrive as inserts of the deletes graph
AsDeletes(changesets) ==
  [i \in 1..Len(changesets) |->
     [inserts |-> <<>>, deletes |-> changesets[i].deletes \o changesets[i].inserts]]

\* scanAndProcess(processDeletes) up to its first await
ScanAndProcess(q) ==
  IF q.processDeletes THEN {[q EXCEPT !.pc = "getTriplesAndAllGraphs"]}
  ELSE {[q EXCEPT !.pc = "getInsertSubjectsWithType"]}

\* The code of an entry point from lock.acquire() to its first await.
EntryBody(q) ==
  CASE q.kind = "delta-inserts" -> ProcessDeltaChangesets(q, q.body)
    [] q.kind = "delta-deletes" -> ProcessDeltaChangesets(q, AsDeletes(q.body))
    [] OTHER -> ScanAndProcess(q)

(***************************************************************************)
(* The Lock (async-await-mutex-lock, one key): acquire() resolves at once  *)
(* when the lock is free and queues its resolver otherwise; release()      *)
(* resolves the oldest queued resolver, or frees the lock when there is    *)
(* none.                                                                   *)
(***************************************************************************)
\* A lock whose acquire() always resolves at once.
LockAcquireAtOnce(lk, r) == [lock |-> [lk EXCEPT !.acquired = TRUE], granted |-> TRUE]

\* A lock whose release() resolves the newest queued resolver.
LockReleaseNewest(lk) ==
  IF lk.waiting # <<>>
  THEN [lock |-> [lk EXCEPT !.waiting = SubSeq(@, 1, Len(@) - 1)],
        resumed |-> lk.waiting[Len(lk.waiting)]]
  ELSE [lock |-> [lk EXCEPT !.acquired = FALSE], resumed |-> 0]

\* A lock whose release() marks the lock free also when it resolves a waiter.
LockReleaseFrees(lk) ==
  IF lk.waiting # <<>>
  THEN [lock |-> [lk EXCEPT !.waiting = Tail(@), !.acquired = FALSE],
        resumed |-> Head(lk.waiting)]
  ELSE [lock |-> [lk EXCEPT !.acquired = FALSE], resumed |-> 0]

LockAcquire(lk, r) ==
  IF ~lk.acquired
  THEN [lock |-> [lk EXCEPT !.acquired = TRUE], granted |-> TRUE]
  ELSE [lock |-> [lk EXCEPT !.waiting = Append(@, r)], granted |-> FALSE]

LockRelease(lk) ==
  IF lk.waiting # <<>>
  THEN [lock |-> [lk EXCEPT !.waiting = Tail(@)], resumed |-> Head(lk.waiting)]
  ELSE [lock |-> [lk EXCEPT !.acquired = FALSE], resumed |-> 0]

\* What is left of a request once its entry point has returned.
Finished(q) ==
  [NoRequest EXCEPT !.kind = q.kind, !.pc = "done", !.responded = q.responded,
                    !.results = q.results, !.error = q.error, !.message = q.message,
                    !.thrownAt = q.thrownAt]

\* NAMESPACES: one function per key of PREFIXES
NAMESPACES ==
  { "besluit", "adms", "skos", "reorg", "lblodgeneriek", "org", "code", "generiek", "ere",
    "organisatie", "mu", "euvoc", "prov", "schema", "locn", "foaf", "ext", "dcterms", "geo",
    "adres", "ns1", "ns3", "rdfs", "fv", "ns", "verenigingen_ext", "vereniging", "pav",
    "person", "xsd" }

\* errorToStore(err) calls ns.rdf, ns.oslc, ns.mu and ns.dct: a TypeError
\* (ns.rdf is not a function) when one of them is not in NAMESPACES.
ErrorToStoreThrows == ~({"rdf", "oslc", "mu", "dct"} \subseteq NAMESPACES)

\* logError(err): with WRITE_ERRORS it calls errorToStore, which throws before
\* writeError is called, so that no update is sent to ERROR_GRAPH and the
\* promise of logError is rejected without an await in between.  Neither the
\* error middleware nor the startup timer handles the rejection.
LogError(q) == [q EXCEPT !.unhandled = env.WRITE_ERRORS /\ ErrorToStoreThrows]

\* The request after the try statement of its entry point: the catch block
\* of encapsulatedScanAndProcess awaits logError(err), the POST handlers call
\* next(err), which has the error middleware await it.
AfterTry(q) == IF q.pc = "throw" THEN LogError(Finished(q)) ELSE Finished(q)

\* The finally block: lock.release(), which resumes the oldest waiter.
Finally(r, after) ==
  LET rel == LockRelease(lock) IN
  /\ lock' = rel.lock
  /\ rq' = [i \in Requests |->
              IF i = r THEN after
              ELSE IF i = rel.resumed THEN [rq[i] EXCEPT !.pc = "resumed"]
              ELSE rq[i]]

\* The event loop runs the continuation of request r: any continuation
\* while the process runs, and once a rejection is unhandled only those that
\* lock.release() has queued as microtasks, which run before Node looks at
\* the rejection.
Runs(r) ==
  \/ process = "running"
  \/ process = "rejected" /\ rq[r].pc \in {"acquired", "resumed"}

\* Request r is at q1 after a step: still inside the pipeline, or at the end
\* of its entry point, where a rejected logError leaves a rejection that
\* nothing handles.
Settle(r, q1) ==
  /\ Runs(r)
  /\ IF q1.pc \notin {"return", "throw"}
     THEN rq' = [rq EXCEPT ![r] = q1] /\ lock' = lock /\ process' = process
     ELSE /\ Finally(r, AfterTry(q1))
          /\ process' = IF AfterTry(q1).unhandled THEN "rejected" ELSE process


(***************************************************************************)
(* Initial state: an empty store, nothing resolvable yet, no request.      *)
(***************************************************************************)
StartWith(b, f, stores, poisons) ==
  /\ triplestore \in stores
  /\ poisoned \in poisons
  /\ errorGraph = {}
  /\ pathResult = [s \in Subjects |-> [i \in 1..Len(PathsToAdministrativeUnit) |-> {}]]
  /\ storeUp = TRUE
  /\ pta = PathsToAdministrativeUnit
  /\ env \in {[WRITE_ERRORS |-> w, BATCH_SIZE |-> BATCH_SIZE] : w \in BOOLEAN}
  /\ feed = f
  /\ lock = [acquired |-> FALSE, waiting |-> <<>>]
  /\ rq = [r \in Requests |-> NoRequest]
  /\ notifier = <<>>
  /\ started = FALSE
  /\ scanAndProcessTimer = FALSE
  /\ process = "running"
  /\ budget = b

StartFrom(b, f, stores) == StartWith(b, f, stores, {{}})

Start(b, f) == StartFrom(b, f, {{}})

Budget(r, d, o, x) == [requests |-> r, deltas |-> d, ownershipChanges |-> o, outages |-> x]

Init == Start(Budget(MaxRequests, MaxDeltas, MaxOwnershipChanges, MaxOutages), Feed)

\* Two deltas about one association, for the interleavings of the entry points.
InitGate ==
  Start(Budget(MaxRequests, GateDeltas, MaxOwnershipChanges, MaxOutages),
        {{IsAssociation, HasName}})

\* Two runs with the ownership data changing between them.
InitRetry ==
  Start(Budget(RetryRequests, MaxDeltas, RetryOwnershipChanges, MaxOutages), Feed)

(***************************************************************************)
(* The environment: the upstream consumer, the ownership data, the store.  *)
(***************************************************************************)
\* The consumer writes triples to a temporary graph; the delta-notifier will
\* post them to the path wired to that graph.
UpstreamDelta ==
  /\ budget.deltas > 0
  /\ storeUp
  /\ \E path \in DeltaKinds, ts \in feed :
       LET g == IF path = "delta-inserts" THEN TEMP_GRAPH_INSERTS ELSE TEMP_GRAPH_DELETES
           quads == {Quad(t, g) : t \in ts}
       IN /\ triplestore' = triplestore \cup quads
          /\ \E inserts \in Orders(quads) :
               notifier' = Append(notifier,
                 [path |-> path, body |-> << [inserts |-> inserts, deletes |-> <<>>] >>])
  /\ budget' = [budget EXCEPT !.deltas = @ - 1]
  /\ UNCHANGED << errorGraph, pathResult, storeUp, config, lock, rq, started,
                  scanAndProcessTimer, process >>

\* The types the fed triples can give a subject.
TypeUniverse(s) ==
  {t.object.value : t \in {x \in UNION feed : x.subject = s /\ x.predicate = RDF_TYPE}}

\* The data a path query reads changes: path i now leads from s to uuids.
OwnershipChange ==
  /\ budget.ownershipChanges > 0
  /\ \E s \in Subjects, i \in 1..Len(pta), uuids \in SUBSET UUIDs :
       /\ pta[i].type \in TypeUniverse(s)
       /\ uuids # pathResult[s][i]
       /\ pathResult' = [pathResult EXCEPT ![s][i] = uuids]
  /\ budget' = [budget EXCEPT !.ownershipChanges = @ - 1]
  /\ UNCHANGED << triplestore, errorGraph, storeUp, config, lock, rq, notifier,
                  started, scanAndProcessTimer, process >>

StoreFails ==
  /\ storeUp
  /\ budget.outages > 0
  /\ storeUp' = FALSE
  /\ budget' = [budget EXCEPT !.outages = @ - 1]
  /\ UNCHANGED << triplestore, errorGraph, pathResult, config, lock, rq, notifier,
                  started, scanAndProcessTimer, process >>

StoreRecovers ==
  /\ ~storeUp
  /\ storeUp' = TRUE
  /\ UNCHANGED << triplestore, errorGraph, pathResult, config, lock, rq, notifier,
                  started, scanAndProcessTimer, process, budget >>

(***************************************************************************)
(* The entry points.                                                       *)
(***************************************************************************)
Arrived == {r \in Requests : rq[r].kind # "none"}

\* `await lock.acquire()` of a new request, which starts as q0
Enter(q0) ==
  LET r == Cardinality(Arrived) + 1
      a == LockAcquire(lock, r)
  IN /\ process = "running"
     /\ process' = process
     /\ budget.requests > 0
     /\ r \in Requests
     /\ budget' = [budget EXCEPT !.requests = @ - 1]
     /\ lock' = a.lock
     /\ rq' = [rq EXCEPT ![r] = [q0 EXCEPT !.pc = IF a.granted THEN "acquired" ELSE "waiting"]]

\* POST /delta-inserts and POST /delta-deletes: res.status(200).end(), then
\* lock.acquire()
PostDelta ==
  /\ notifier # <<>>
  /\ Enter([NoRequest EXCEPT !.kind = Head(notifier).path, !.responded = TRUE,
                             !.body = Head(notifier).body])
  /\ notifier' = Tail(notifier)
  /\ UNCHANGED << triplestore, errorGraph, pathResult, storeUp, config, started,
                  scanAndProcessTimer >>

\* POST /manual-dispatch
PostManualDispatch ==
  /\ Enter([NoRequest EXCEPT !.kind = "manual-dispatch", !.responded = TRUE,
                             !.processDeletes = TRUE])
  /\ UNCHANGED << triplestore, errorGraph, pathResult, storeUp, config, notifier,
                  started, scanAndProcessTimer >>

\* setTimeout(encapsulatedScanAndProcess, 500)
StartupScan ==
  /\ ~started
  /\ started' = TRUE
  /\ Enter([NoRequest EXCEPT !.kind = "startup", !.processDeletes = TRUE])
  /\ UNCHANGED << triplestore, errorGraph, pathResult, storeUp, config, notifier,
                  scanAndProcessTimer >>

(***************************************************************************)
(* The steps of a request: one per awaited call.                           *)
(***************************************************************************)
others ==
  << errorGraph, pathResult, storeUp, config, notifier, started, scanAndProcessTimer,
     budget >>

\* A failed path query that is taken for an empty answer.
RejectedAsEmpty(r) ==
  /\ ~storeUp
  /\ \E q1 \in (IF rq[r].pc = "getOrganisationUUIDs"
                  THEN ResolveFrom(rq[r], rq[r].cfg)
                  ELSE Throw(rq[r], "transient")) : Settle(r, q1)
  /\ UNCHANGED triplestore

\* A query or update is rejected: the exception leaves the pipeline.
Rejected(r) ==
  /\ ~storeUp
  /\ \E q1 \in Throw(rq[r], "transient") : Settle(r, q1)
  /\ UNCHANGED triplestore

\* lock.acquire() has resolved, at once or by the release of the holder
Acquired(r) ==
  /\ rq[r].pc \in {"acquired", "resumed"}
  /\ \E q1 \in EntryBody(rq[r]) : Settle(r, q1)
  /\ UNCHANGED << triplestore, others >>

GetGraphsForTriples(r) ==
  /\ rq[r].pc = "getGraphsForTriples"
  /\ \/ /\ storeUp
        /\ \E q1 \in DeleteTriples(rq[r], rq[r].storeWithAllGraphs,
                                   GraphsForTriples(triplestore, rq[r].storeWithAllGraphs)) :
             Settle(r, q1)
        /\ UNCHANGED triplestore
     \/ Rejected(r)
  /\ UNCHANGED others

GetTriplesAndAllGraphs(r) ==
  /\ rq[r].pc = "getTriplesAndAllGraphs"
  /\ \/ /\ storeUp
        /\ LET deletes == TriplesAndAllGraphs(triplestore, TEMP_GRAPH_DELETES) IN
           \E q1 \in DeleteTriples(rq[r], deletes, deletes) : Settle(r, q1)
        /\ UNCHANGED triplestore
     \/ Rejected(r)
  /\ UNCHANGED others

\* deleteTriplesFromGraphWithoutBatching: the DELETE DATA of the N3 writer
\* mas.updateSudo of a DELETE DATA naming the triples ts resolves
Deletes(ts) == storeUp /\ ts \cap poisoned = {}

\* The triples of a batch that the second DELETE DATA is about.
StringTyped(ts) == {x \in ts : x.object.datatype = XSD_STRING}

DeleteData(r) ==
  /\ rq[r].pc = "deleteData"
  /\ \/ /\ Deletes(Batch(rq[r]))
        /\ triplestore' = DeleteDataUpdate(triplestore, rq[r].graph, WrittenTriples(Batch(rq[r])))
        /\ \E q1 \in (IF StringTypedTriples(Batch(rq[r])) # {}
                      THEN {[Sent(rq[r]) EXCEPT !.pc = "deleteDataStrings"]}
                      ELSE BatchDone(Sent(rq[r]))) :
             Settle(r, q1)
     \/ /\ ~Deletes(Batch(rq[r]))
        /\ \E q1 \in BatchFailed(Sent(rq[r])) : Settle(r, q1)
        /\ UNCHANGED triplestore
  /\ UNCHANGED others

\* deleteTriplesFromGraphWithoutBatching: the DELETE DATA for string literals
DeleteDataStrings(r) ==
  /\ rq[r].pc = "deleteDataStrings"
  /\ \/ /\ Deletes(StringTyped(Batch(rq[r])))
        /\ triplestore' = DeleteDataUpdate(triplestore, rq[r].graph,
                                           StringTypedTriples(Batch(rq[r])))
        /\ \E q1 \in BatchDone(Sent(rq[r])) : Settle(r, q1)
     \/ /\ ~Deletes(StringTyped(Batch(rq[r])))
        /\ \E q1 \in BatchFailed(Sent(rq[r])) : Settle(r, q1)
        /\ UNCHANGED triplestore
  /\ UNCHANGED others

GetTypesForSubjects(r) ==
  /\ rq[r].pc = "getTypesForSubjects"
  /\ \/ /\ storeUp
        /\ \E q1 \in NextRow([rq[r] EXCEPT !.rows = TypesForSubjects(triplestore, rq[r].subjects)]) :
             Settle(r, q1)
        /\ UNCHANGED triplestore
     \/ Rejected(r)
  /\ UNCHANGED others

GetInsertSubjectsWithType(r) ==
  /\ rq[r].pc = "getInsertSubjectsWithType"
  /\ \/ /\ storeUp
        /\ \E q1 \in NextRow([rq[r] EXCEPT !.rows = InsertSubjectsWithType(triplestore)]) :
             Settle(r, q1)
        /\ UNCHANGED triplestore
     \/ Rejected(r)
  /\ UNCHANGED others

\* getOrganisationUUIDs: the query of one pathConfig
GetOrganisationUUIDs(r) ==
  /\ rq[r].pc = "getOrganisationUUIDs"
  /\ \/ /\ storeUp
        /\ LET found == pathResult[rq[r].row.subject][rq[r].cfg]
               new == found \ Range(rq[r].organisationUUIDs)
           IN \E order \in Orders(new) :
                \E q1 \in ResolveFrom([rq[r] EXCEPT !.organisationUUIDs = @ \o order],
                                      rq[r].cfg) :
                  Settle(r, q1)
        /\ UNCHANGED triplestore
     \/ Rejected(r)
  /\ UNCHANGED others

\* moveSubjectBetweenGraphs: getDataForSubject(subject, originalGraph)
GetDataForSubject(r) ==
  /\ rq[r].pc = "getDataForSubject"
  /\ \/ /\ storeUp
        /\ LET data == DataForSubject(triplestore, rq[r].row.subject, TEMP_GRAPH_INSERTS)
               first == Len(rq[r].todo) = Len(rq[r].organisationUUIDs)
               q == [rq[r] EXCEPT !.data = data,
                                  !.staged = IF first THEN data ELSE @]
           IN \E q1 \in (IF data = {} THEN AfterInsertData(q)
                         ELSE {[q EXCEPT !.pc = "insertFunction"]}) :
                Settle(r, q1)
        /\ UNCHANGED triplestore
     \/ Rejected(r)
  /\ UNCHANGED others

\* insertFunction: the timer of sleep(env.SLEEP_BETWEEN_BATCHES) fires, the
\* writer prints the store and the INSERT DATA is sent
InsertFunction(r) ==
  /\ rq[r].pc = "insertFunction"
  /\ Settle(r, [Slept(rq[r]) EXCEPT !.pc = "insertData"])
  /\ UNCHANGED << triplestore, others >>

\* deleteFunction: the timer of sleep(env.SLEEP_BETWEEN_BATCHES) fires, the
\* store is spread into triples and the DELETE DATA of the first batch is
\* sent
DeleteFunction(r) ==
  /\ rq[r].pc = "deleteFunction"
  /\ \E order \in Orders(rq[r].store) :
       Settle(r, [Slept(rq[r]) EXCEPT !.pc = "deleteData", !.triples = order,
                                      !.start = 0, !.batchSize = env.BATCH_SIZE,
                                      !.batches = <<>>])
  /\ UNCHANGED << triplestore, others >>

\* insertFunction: the INSERT DATA of moveSubjectBetweenGraphs is answered
InsertData(r) ==
  /\ rq[r].pc = "insertData"
  /\ \/ /\ storeUp
        /\ triplestore' = InsertDataUpdate(triplestore, OrganisationGraph(Head(rq[r].todo)),
                                           rq[r].data)
        /\ \E q1 \in AfterInsertData(Sent(rq[r])) : Settle(r, q1)
     \/ Rejected(r)
  /\ UNCHANGED others

Step(r) ==
  \/ Acquired(r)
  \/ GetGraphsForTriples(r)
  \/ GetTriplesAndAllGraphs(r)
  \/ DeleteData(r)
  \/ DeleteDataStrings(r)
  \/ GetTypesForSubjects(r)
  \/ GetInsertSubjectsWithType(r)
  \/ GetOrganisationUUIDs(r)
  \/ GetDataForSubject(r)
  \/ InsertFunction(r)
  \/ InsertData(r)
  \/ DeleteFunction(r)

\* The rejection of logError is still unhandled when the microtasks have
\* run: Node (15 and later, as started by default) ends the process with
\* exit code 1.  Its requests, its Lock and its timers are gone.
Exit ==
  /\ process = "rejected"
  /\ \A r \in Requests : rq[r].pc \notin {"acquired", "resumed"}
  /\ process' = "exited"
  /\ UNCHANGED << triplestore, lock, rq, others >>

Next ==
  \/ UpstreamDelta
  \/ OwnershipChange
  \/ StoreFails
  \/ StoreRecovers
  \/ PostDelta
  \/ PostManualDispatch
  \/ StartupScan
  \/ Exit
  \/ \E r \in Requests : Step(r)

Spec == Init /\ [][Next]_vars

SpecGate == InitGate /\ [][Next]_vars

SpecRetry == InitRetry /\ [][Next]_vars

\* The store is not the service's own: when the service starts it holds what
\* earlier runs and other services have written.  Here the association and
\* its name are in any of the two partition graphs and the unrelated graph.
Held(ts, gs) == {Quad(t, g) : t \in ts, g \in gs}

Preloaded ==
  { Held({IsAssociation, HasName}, gs) :
      gs \in { {},
               {OTHER_GRAPH},
               {OrganisationGraph("u1"), TEMP_GRAPH_INSERTS},
               {OrganisationGraph("u1"), TEMP_GRAPH_INSERTS, OTHER_GRAPH},
               {OrganisationGraph("u1"), OrganisationGraph("u2"), TEMP_GRAPH_INSERTS} } }

InitDeletes ==
  StartFrom(Budget(DeletesRequests, MaxDeltas, MaxOwnershipChanges, MaxOutages),
            {{IsAssociation, HasName}}, Preloaded)

SpecDeletes == InitDeletes /\ [][Next]_vars

\* The deletes graph holds every triple and the store rejects every DELETE
\* DATA that names one particular triple, if any.
InitPoison ==
  StartWith(Budget(PoisonRequests, MaxDeltas, MaxOwnershipChanges, MaxOutages),
            {{IsAssociation, HasName}},
            {Held(Triples, {TEMP_GRAPH_DELETES})},
            {{}} \cup {{t} : t \in Triples})

SpecPoison == InitPoison /\ [][Next]_vars

\* Stores for two scans in a row: the inserts graph holds some of the
\* triples, the name may be in the deletes graph and in organisation graphs.
RescanStores ==
  { Held(ins, {TEMP_GRAPH_INSERTS}) \cup Held({HasName}, gs) :
      ins \in {{}, {IsAssociation, HasName}, {IsSite}, Triples},
      gs \in { {},
               {TEMP_GRAPH_DELETES},
               {TEMP_GRAPH_DELETES, OrganisationGraph("u1")},
               {TEMP_GRAPH_DELETES, OrganisationGraph("u1"), OrganisationGraph("u2")} } }

\* What the path queries of the association and of the primary site return.
RescanPaths ==
  { [s \in Subjects |-> [i \in 1..Len(PathsToAdministrativeUnit) |->
                           IF i = 1 THEN a ELSE IF i = 3 THEN b ELSE {}]] :
      a \in SUBSET UUIDs, b \in SUBSET UUIDs }

InitRescan ==
  /\ triplestore \in RescanStores
  /\ poisoned = {}
  /\ errorGraph = {}
  /\ pathResult \in RescanPaths
  /\ storeUp = TRUE
  /\ pta = PathsToAdministrativeUnit
  /\ env \in {[WRITE_ERRORS |-> w, BATCH_SIZE |-> BATCH_SIZE] : w \in BOOLEAN}
  /\ feed = {}
  /\ lock = [acquired |-> FALSE, waiting |-> <<>>]
  /\ rq = [r \in Requests |-> NoRequest]
  /\ notifier = <<>>
  /\ started = FALSE
  /\ scanAndProcessTimer = FALSE
  /\ process = "running"
  /\ budget = Budget(RescanRequests, 0, 0, 0)

\* Scans only: nothing is staged, the ownership data and the store stay as
\* they are.
NextRescan ==
  \/ StartupScan
  \/ PostManualDispatch
  \/ \E r \in Requests :
       \/ Acquired(r)
       \/ GetTriplesAndAllGraphs(r)
       \/ DeleteData(r)
       \/ DeleteDataStrings(r)
       \/ GetInsertSubjectsWithType(r)
       \/ GetOrganisationUUIDs(r)
       \/ GetDataForSubject(r)
       \/ InsertFunction(r)
       \/ InsertData(r)
       \/ DeleteFunction(r)

SpecRescan == InitRescan /\ [][NextRescan]_vars

\* Stores for the resolver: the subject is staged with any of its types, one
\* of them a type without pathConfig, and every path query of its types
\* returns any set of organisations.
ResolverStores ==
  { Held(ts, {TEMP_GRAPH_INSERTS}) :
      ts \in {{IsAssociation}, {IsSite}, {IsPerson}, {IsUnconfigured},
              {IsSite, IsUnconfigured}, {IsAssociation, IsSite, HasName}} }

\* What the path queries return: a for the association (entry 1) and for the
\* first path of a person (entry 2), b and c for the two paths of a site
\* (entries 3 and 4) and for the other two of a person (entries 15 and 16).
ResolverPaths ==
  { [s \in Subjects |-> [i \in 1..Len(PathsToAdministrativeUnit) |->
                           IF i \in {1, 2} THEN a
                           ELSE IF i \in {3, 15} THEN b
                           ELSE IF i \in {4, 16} THEN c ELSE {}]] :
      a \in SUBSET UUIDs, b \in SUBSET UUIDs, c \in SUBSET UUIDs }

InitResolver ==
  /\ triplestore \in ResolverStores
  /\ poisoned = {}
  /\ errorGraph = {}
  /\ pathResult \in ResolverPaths
  /\ storeUp = TRUE
  /\ pta = PathsToAdministrativeUnit
  /\ env \in {[WRITE_ERRORS |-> w, BATCH_SIZE |-> BATCH_SIZE] : w \in BOOLEAN}
  /\ feed = {{IsSite}}
  /\ lock = [acquired |-> FALSE, waiting |-> <<>>]
  /\ rq = [r \in Requests |-> NoRequest]
  /\ notifier = <<>>
  /\ started = FALSE
  /\ scanAndProcessTimer = FALSE
  /\ process = "running"
  /\ budget = Budget(ResolverRequests, 0, MaxOwnershipChanges, 0)

\* One scan, while the data that the path queries of the site read may change.
NextResolver ==
  \/ StartupScan
  \/ PostManualDispatch
  \/ OwnershipChange
  \/ \E r \in Requests :
       \/ Acquired(r)
       \/ GetTriplesAndAllGraphs(r)
       \/ GetInsertSubjectsWithType(r)
       \/ GetOrganisationUUIDs(r)
       \/ GetDataForSubject(r)
       \/ InsertFunction(r)
       \/ InsertData(r)
       \/ DeleteFunction(r)
       \/ DeleteData(r)
       \/ DeleteDataStrings(r)

SpecResolver == InitResolver /\ [][NextResolver]_vars

\* The file config/pathsToAdministrativeUnit.js may be replaced by a mounted
\* one: the tables with these types and paths, whatever their flags.
Configs ==
  { [i \in 1..Len(PathsToAdministrativeUnit) |->
       [PathsToAdministrativeUnit[i] EXCEPT
          !.allowedInMultipleOrgs = IF i = 1 THEN a ELSE IF i = 3 THEN b ELSE IF i = 4 THEN c ELSE @]] :
      a \in BOOLEAN, b \in BOOLEAN, c \in BOOLEAN }

InitConfig ==
  /\ triplestore \in {Held(ts, {TEMP_GRAPH_INSERTS}) : ts \in {{IsAssociation}, {IsSite, HasName}}}
  /\ poisoned = {}
  /\ errorGraph = {}
  /\ pathResult \in ResolverPaths
  /\ storeUp = TRUE
  /\ pta \in Configs
  /\ env \in {[WRITE_ERRORS |-> w, BATCH_SIZE |-> BATCH_SIZE] : w \in BOOLEAN}
  /\ feed = {{IsSite}}
  /\ lock = [acquired |-> FALSE, waiting |-> <<>>]
  /\ rq = [r \in Requests |-> NoRequest]
  /\ notifier = <<>>
  /\ started = FALSE
  /\ scanAndProcessTimer = FALSE
  /\ process = "running"
  /\ budget = Budget(ResolverRequests, 0, 0, 0)

\* One scan under each table.
NextConfig ==
  \/ StartupScan
  \/ PostManualDispatch
  \/ \E r \in Requests :
       \/ Acquired(r)
       \/ GetTriplesAndAllGraphs(r)
       \/ GetInsertSubjectsWithType(r)
       \/ GetOrganisationUUIDs(r)
       \/ GetDataForSubject(r)
       \/ InsertFunction(r)
       \/ InsertData(r)
       \/ DeleteFunction(r)
       \/ DeleteData(r)
       \/ DeleteDataStrings(r)

SpecConfig == InitConfig /\ [][NextConfig]_vars

\* The changesets of one delta message: up to MaxChangesets changesets, each
\* with at most one inserted and at most one deleted quad.
ChangesetItems(g) == {<<>>} \cup {<< Quad(t, g) >> : t \in Triples}

Changesets ==
  [inserts : ChangesetItems(TEMP_GRAPH_INSERTS), deletes : ChangesetItems(TEMP_GRAPH_DELETES)]

Bodies == UNION {[1..n -> Changesets] : n \in 0..MaxChangesets}

\* One delta message with any of these bodies is about to be posted.
InitFlatten ==
  /\ triplestore = {}
  /\ poisoned = {}
  /\ errorGraph = {}
  /\ pathResult = [s \in Subjects |-> [i \in 1..Len(PathsToAdministrativeUnit) |-> {}]]
  /\ storeUp = TRUE
  /\ pta = PathsToAdministrativeUnit
  /\ env \in {[WRITE_ERRORS |-> w, BATCH_SIZE |-> BATCH_SIZE] : w \in BOOLEAN}
  /\ feed = {}
  /\ lock = [acquired |-> FALSE, waiting |-> <<>>]
  /\ rq = [r \in Requests |-> NoRequest]
  /\ notifier \in {<< [path |-> "delta-inserts", body |-> b] >> : b \in Bodies}
  /\ started = FALSE
  /\ scanAndProcessTimer = FALSE
  /\ process = "running"
  /\ budget = Budget(1, 0, 0, 0)

\* The handler takes the message and processDeltaChangesets flattens it.
NextFlatten == PostDelta \/ \E r \in Requests : Acquired(r)

SpecFlatten == InitFlatten /\ [][NextFlatten]_vars

\* The event loop runs the continuation of every settled promise, and the
\* store answers or rejects every call: each request keeps taking its steps.
InitFair ==
  Start(Budget(MaxRequests, MaxDeltas, MaxOwnershipChanges, MaxOutages),
        {{IsAssociation, HasName}})

FairGate ==
  InitFair /\ [][Next]_vars /\ WF_vars(Exit) /\ \A r \in Requests : WF_vars(Step(r))

\* The same for the deletes of SpecPoison: every update of deleteFunction is
\* answered or rejected, and the loop takes its next step.
InitFairPoison ==
  StartWith(Budget(BatchingRequests, MaxDeltas, MaxOwnershipChanges, MaxOutages),
            {{IsAssociation}},
            {Held(Triples, {TEMP_GRAPH_DELETES})},
            {{}} \cup {{t} : t \in Triples})

FairPoison ==
  InitFairPoison /\ [][Next]_vars /\ WF_vars(Exit) /\ \A r \in Requests : WF_vars(Step(r))

\* Scans of a staged association while the store fails once and recovers:
\* every awaited call settles, the startup timer fires and manual dispatches
\* keep coming as long as the budget lasts.
RetryPaths ==
  { [s \in Subjects |-> [i \in 1..Len(PathsToAdministrativeUnit) |-> IF i = 1 THEN a ELSE {}]] :
      a \in SUBSET UUIDs }

InitFairRetry ==
  /\ triplestore \in {Held(ts, {TEMP_GRAPH_INSERTS}) : ts \in {{IsAssociation, HasName}, {HasName}}}
  /\ poisoned = {}
  /\ errorGraph = {}
  /\ pathResult \in RetryPaths
  /\ storeUp = TRUE
  /\ pta = PathsToAdministrativeUnit
  /\ env \in {[WRITE_ERRORS |-> w, BATCH_SIZE |-> BATCH_SIZE] : w \in BOOLEAN}
  /\ feed = {}
  /\ lock = [acquired |-> FALSE, waiting |-> <<>>]
  /\ rq = [r \in Requests |-> NoRequest]
  /\ notifier = <<>>
  /\ started = FALSE
  /\ scanAndProcessTimer = FALSE
  /\ process = "running"
  /\ budget = Budget(RetryScans, 0, 0, MaxOutages)

ScanStep(r) ==
  \/ Acquired(r)
  \/ GetTriplesAndAllGraphs(r)
  \/ GetInsertSubjectsWithType(r)
  \/ GetOrganisationUUIDs(r)
  \/ GetDataForSubject(r)
  \/ InsertFunction(r)
  \/ InsertData(r)
  \/ DeleteFunction(r)
  \/ DeleteData(r)
  \/ DeleteDataStrings(r)

NextFairRetry ==
  \/ StoreFails
  \/ StoreRecovers
  \/ PostManualDispatch
  \/ StartupScan
  \/ Exit
  \/ \E r \in Requests : ScanStep(r)

FairRetry ==
  /\ InitFairRetry
  /\ [][NextFairRetry]_vars
  /\ \A r \in Requests : WF_vars(ScanStep(r))
  /\ WF_vars(PostManualDispatch)
  /\ WF_vars(StartupScan)
  /\ WF_vars(Exit)

(***************************************************************************)
(* The gate.                                                               *)
(***************************************************************************)
InCriticalSection(r) == rq[r].pc \in CriticalSection

\* The entry point of the request has passed its lock.release().
Released(r) == rq[r].pc = "done"

\* C1: whatever the interleaving of /delta-inserts, /delta-deletes,
\* /manual-dispatch and the startup scan, at most one request is between its
\* lock.acquire() and its lock.release().
MutualExclusion == Cardinality({r \in Requests : InCriticalSection(r)}) <= 1

\* A request is about to write to a partition graph while another one waits.
MutualExclusionWitness ==
  \E r1, r2 \in Requests : rq[r1].pc = "insertData" /\ rq[r2].pc = "waiting"

\* C2: the gate is held exactly while some request is in its critical
\* section, whether the runs before it returned or threw, and every request
\* waiting on the gate eventually gets it, also behind a run that threw.
GateReleased ==
  /\ [](lock.acquired <=> \E r \in Requests : InCriticalSection(r))
  /\ \A r \in Requests : (rq[r].pc = "waiting") ~> (rq[r].pc = "resumed")

\* C3: requests enter their critical section in the order in which they
\* arrived (request numbers are arrival numbers): a request is in or past its
\* critical section only when every earlier request is past its own, and the
\* queue of the lock holds the waiting requests oldest first.
ArrivalOrder ==
  /\ \A r \in Requests :
       (InCriticalSection(r) \/ Released(r)) => \A e \in 1..(r - 1) : Released(e)
  /\ Range(lock.waiting) = {r \in Requests : rq[r].pc = "waiting"}
  /\ \A i, j \in 1..Len(lock.waiting) : i < j => lock.waiting[i] < lock.waiting[j]

\* The second request was resumed by the first one's release, the third waits.
ArrivalOrderWitness ==
  /\ Released(1) /\ rq[2].pc = "resumed"
  /\ lock.waiting = <<3>>

\* C4: a request of a POST path is answered 200 before its own data are
\* processed, and only when every request received before it has finished.
RespondedAfterPreceding ==
  \A r \in Requests :
    /\ (rq[r].kind \in HttpKinds /\ rq[r].pc # "none") => rq[r].responded
    /\ (rq[r].kind \in HttpKinds /\ rq[r].responded) =>
         \A e \in 1..(r - 1) : Released(e)

(***************************************************************************)
(* Placement of inserts.                                                   *)
(***************************************************************************)
StagingContents(store, s) == DataForSubject(store, s, TEMP_GRAPH_INSERTS)

\* The partition graphs that hold a triple.
PartitionsOf(store, t) == {u \in UUIDs : Quad(t, OrganisationGraph(u)) \in store}

\* The triples that deltas not yet processed have put in the inserts graph:
\* those of the messages still to post and of the requests waiting on the lock.
StagedAgain ==
  LET bodies == {notifier[i].body : i \in 1..Len(notifier)}
                  \cup {rq[r].body : r \in {x \in Requests : rq[x].pc = "waiting"}}
      quads == UNION {UNION {Range(b[i].inserts) : i \in 1..Len(b)} : b \in bodies}
  IN {TripleOf(x) : x \in {y \in quads : y.graph = TEMP_GRAPH_INSERTS}}

\* Request r takes a step that ends a call of moveSubjectBetweenGraphs.
MoveCompletes(r) ==
  /\ rq[r].todo # <<>>
  /\ rq'[r].todo = Tail(rq[r].todo)
  /\ rq'[r].error = "none"

\* The step of r pushes, first, a result res to its insert results.
Reports(r, res) ==
  LET n == Len(rq[r].results.inserts) IN
  /\ Len(rq'[r].results.inserts) > n
  /\ rq'[r].results.inserts[n + 1] = res

\* Request r takes the step of a path query of getOrganisationUUIDs.
Resolves(r) == rq[r].pc = "getOrganisationUUIDs" /\ storeUp /\ rq'[r] # rq[r]

\* The organisations the resolver has for the subject once this query is in.
Candidates(r) ==
  Range(rq[r].organisationUUIDs) \cup pathResult[rq[r].row.subject][rq[r].cfg]

LastPath(r) == NextPath(pta, rq[r].row.type, rq[r].cfg) = 0

\* No request is running or waiting and no delta is still to be posted.
Idle == notifier = <<>> /\ \A r \in Requests : rq[r].pc \in {"none", "done"}

\* C5: once everything received has been processed, every fact that is
\* staged or placed is either in exactly one partition graph and no longer
\* in the inserts graph, or in the inserts graph and in no partition graph
\* (pending or ambiguous).
OnePlacement ==
  Idle =>
    \A t \in Triples :
      LET staged == Quad(t, TEMP_GRAPH_INSERTS) \in triplestore
          placed == PartitionsOf(triplestore, t)
      IN (staged \/ placed # {}) =>
           \/ Cardinality(placed) = 1 /\ ~staged
           \/ placed = {} /\ staged

\* C6: a fact is in two partition graphs only if a type of its subject has
\* allowedInMultipleOrgs set.
NoUnintendedDuplicate ==
  \A t \in Triples :
    Cardinality(PartitionsOf(triplestore, t)) > 1 =>
      \E type \in TypesOf(triplestore, t.subject) : AllowedInMultipleOrgs(pta, type)

\* C7: when the move of a subject with exactly one organisation ends, every
\* fact the subject had in the inserts graph is in the graph of that
\* organisation, is no longer in the inserts graph (unless a delta not yet
\* processed has staged it again) and a success result is reported.
SinglePlacement ==
  [][\A r \in Requests :
       (MoveCompletes(r) /\ Len(rq[r].organisationUUIDs) = 1) =>
         LET s == rq[r].row.subject
             u == rq[r].organisationUUIDs[1]
         IN /\ rq[r].staged \subseteq GraphContents(triplestore', OrganisationGraph(u))
            /\ (rq[r].staged \cap StagingContents(triplestore', s)) \subseteq StagedAgain
            /\ Reports(r, Moved(rq[r].row, u))]_vars

\* The association and its name have been moved to the one organisation the
\* resolver has for it.
SinglePlacementWitness ==
  \E r \in Requests, u \in UUIDs :
    /\ pathResult["s1"][1] = {u}
    /\ Moved([subject |-> "s1", type |-> FeitelijkeVereniging], u) \in Range(rq[r].results.inserts)
    /\ {IsAssociation, HasName} \subseteq GraphContents(triplestore, OrganisationGraph(u))
    /\ StagingContents(triplestore, "s1") = {}

\* C8: when the last move of a subject with several organisations ends, the
\* graph of each of them holds every fact the subject had in the inserts
\* graph, and the inserts graph holds none of them (unless staged again).
MultiPlacement ==
  [][\A r \in Requests :
       (MoveCompletes(r) /\ Len(rq[r].todo) = 1 /\ Len(rq[r].organisationUUIDs) > 1) =>
         LET s == rq[r].row.subject IN
         /\ \A u \in Range(rq[r].organisationUUIDs) :
              rq[r].staged \subseteq GraphContents(triplestore', OrganisationGraph(u))
         /\ (rq[r].staged \cap StagingContents(triplestore', s)) \subseteq StagedAgain]_vars

\* C9: the queries of the resolver change nothing in the store, and when they
\* end with several organisations for a type that is not allowed in several,
\* the request, whichever it is and whatever ran before it, reports a failure
\* that lists them.
AmbiguousInsert ==
  [][\A r \in Requests :
       Resolves(r) =>
         /\ triplestore' = triplestore
         /\ ( /\ LastPath(r)
              /\ Cardinality(Candidates(r)) > 1
              /\ ~AllowedInMultipleOrgs(pta, rq[r].row.type) ) =>
              \E order \in Orders(Candidates(r)) : Reports(r, TooMany(rq[r].row, order))]_vars

\* Two requests, one after the other, have reported the same two
\* organisations for the association, which is still staged.
AmbiguousInsertWitness ==
  \E r1, r2 \in Requests, order \in Orders(UUIDs) :
    LET res == TooMany([subject |-> "s1", type |-> FeitelijkeVereniging], order) IN
    /\ r1 < r2
    /\ res \in Range(rq[r1].results.inserts)
    /\ res \in Range(rq[r2].results.inserts)
    /\ rq[r2].kind \in ScanKinds
    /\ {IsAssociation, HasName} \subseteq StagingContents(triplestore, "s1")

\* C10: when the queries of the resolver end without an organisation, the
\* facts of the subject in the inserts graph and every partition graph are
\* as they were, and a result that is not a success is reported.
PendingInsert ==
  [][\A r \in Requests :
       (Resolves(r) /\ LastPath(r) /\ Candidates(r) = {}) =>
         LET s == rq[r].row.subject
             n == Len(rq[r].results.inserts)
         IN /\ StagingContents(triplestore', s) = StagingContents(triplestore, s)
            /\ \A u \in UUIDs :
                 GraphContents(triplestore', OrganisationGraph(u))
                   = GraphContents(triplestore, OrganisationGraph(u))
            /\ Len(rq'[r].results.inserts) > n
            /\ ~rq'[r].results.inserts[n + 1].success
            /\ rq'[r].results.inserts[n + 1].subject = s
            /\ rq'[r].results.inserts[n + 1].type = rq[r].row.type]_vars

\* A request has found no organisation for the association, which is still
\* staged and in no partition graph.
PendingInsertWitness ==
  \E r \in Requests :
    /\ NotFound([subject |-> "s1", type |-> FeitelijkeVereniging]) \in Range(rq[r].results.inserts)
    /\ {IsAssociation, HasName} \subseteq StagingContents(triplestore, "s1")
    /\ \A u \in UUIDs : GraphContents(triplestore, OrganisationGraph(u)) = {}

(***************************************************************************)
(* Deletes.                                                                *)
(***************************************************************************)
\* The triples that deltas not yet processed have put in graph g.
StagedAgainIn(g) ==
  LET bodies == {notifier[i].body : i \in 1..Len(notifier)}
                  \cup {rq[r].body : r \in {x \in Requests : rq[x].pc = "waiting"}}
      quads == UNION {UNION {Range(b[i].inserts) : i \in 1..Len(b)} : b \in bodies}
  IN {TripleOf(x) : x \in {y \in quads : y.graph = g}}

\* Request r is in the deleteData(storeWithAllGraphs) of deleteTriples.
InDeleteTriples(q) ==
  q.pc \in {"deleteFunction", "deleteData", "deleteDataStrings"} /\ q.ret = "graphs"

\* Request r takes the step in which deleteTriples returns.
DeleteTriplesReturns(r) ==
  /\ InDeleteTriples(rq[r])
  /\ ~InDeleteTriples(rq'[r])
  /\ rq'[r].error = "none"

\* The partition graphs deleteTriples has found a triple in.
FoundIn(r, t) == OrganisationGraphsOf(rq[r].storeWithAllGraphs, t)

MoreThanOne == "More than one organisation graph found. Not removing triple."

\* The triples for which request r has pushed the failed delete result.
NotRemoving(r) ==
  { rq[r].results.deletes[i].triple :
      i \in {j \in 1..Len(rq[r].results.deletes) : rq[r].results.deletes[j].reason = MoreThanOne} }

\* C12: a fact that deleteTriples has reported as found in more than one
\* partition graph is excluded from the deletion: while the deleteData of that
\* deleteTriples runs, the fact stays in every graph it is in.
AmbiguousDelete ==
  [][\A r \in Requests :
       InDeleteTriples(rq[r]) =>
         \A t \in NotRemoving(r) :
           \A g \in Graphs : Quad(t, g) \in triplestore => Quad(t, g) \in triplestore']_vars

\* Request r takes the step that ends its deleteTriples, by a return or by
\* the fatal error of deleteData.
DeleteTriplesEnds(r) == InDeleteTriples(rq[r]) /\ ~InDeleteTriples(rq'[r])

\* C13: when a run of deleteTriples ends, also by a fatal error, a fact it
\* has removed from its partition graph is absent from the deletes graph and
\* from the inserts graph (unless a delta not yet processed has staged it
\* again).
DeleteAtomicity ==
  [][\A r \in Requests :
       DeleteTriplesEnds(r) =>
         \A x \in rq[r].storeWithAllGraphs :
           (x.graph.prefix = ORGANISATION_GRAPH_PREFIX /\ x \notin triplestore') =>
             \A g \in {TEMP_GRAPH_DELETES, TEMP_GRAPH_INSERTS} :
               Quad(TripleOf(x), g) \in triplestore' => TripleOf(x) \in StagedAgainIn(g)]_vars

(***************************************************************************)
(* Coalescing of changesets.                                               *)
(***************************************************************************)
\* processDeltaChangesets of request r has flattened the request's body.
Flattened(r) ==
  /\ rq[r].kind = "delta-inserts"
  /\ rq[r].pc \in CriticalSection \ {"acquired", "resumed"}

\* No quad is deleted by two changesets of the body or inserted by two, so
\* that a batch tells which changesets it comes from.
Traceable(body) ==
  \A i, j \in 1..Len(body) :
    i # j => /\ Range(body[i].deletes) \cap Range(body[j].deletes) = {}
             /\ Range(body[i].inserts) \cap Range(body[j].inserts) = {}

\* The batches that hold the deletes, the inserts, of changeset i.
DeletesBatches(r, i) ==
  {k \in 1..Len(rq[r].flattened) :
     Range(rq[r].body[i].deletes) \subseteq Range(rq[r].flattened[k].deletes)}

InsertsBatches(r, i) ==
  {k \in 1..Len(rq[r].flattened) :
     Range(rq[r].body[i].inserts) \subseteq Range(rq[r].flattened[k].inserts)}

HasDeletes(r, i) == Len(rq[r].body[i].deletes) > 0

HasInserts(r, i) == Len(rq[r].body[i].inserts) > 0

\* C14: for every changeset with both deletes and inserts, the batch that
\* holds its deletes comes strictly before the batch that holds its inserts.
DeletesBeforeOwnInserts ==
  \A r \in Requests :
    (Flattened(r) /\ Traceable(rq[r].body)) =>
      \A i \in 1..Len(rq[r].body) :
        (HasDeletes(r, i) /\ HasInserts(r, i)) =>
          /\ DeletesBatches(r, i) # {}
          /\ InsertsBatches(r, i) # {}
          /\ \A kd \in DeletesBatches(r, i), ki \in InsertsBatches(r, i) : kd < ki

\* C15: for changesets i < j, the batch with the deletes of i comes strictly
\* before the batch with the inserts of j, and the batch with the inserts of
\* i strictly before the batch with the deletes of j.
GlobalOrdering ==
  \A r \in Requests :
    (Flattened(r) /\ Traceable(rq[r].body)) =>
      \A i, j \in 1..Len(rq[r].body) :
        i < j =>
          /\ (HasDeletes(r, i) /\ HasInserts(r, j)) =>
                /\ DeletesBatches(r, i) # {}
                /\ InsertsBatches(r, j) # {}
                /\ \A kd \in DeletesBatches(r, i), ki \in InsertsBatches(r, j) : kd < ki
          /\ (HasInserts(r, i) /\ HasDeletes(r, j)) =>
                /\ InsertsBatches(r, i) # {}
                /\ DeletesBatches(r, j) # {}
                /\ \A ki \in InsertsBatches(r, i), kd \in DeletesBatches(r, j) : ki < kd

\* A body of three changesets, each with deletes and inserts, all different,
\* has been flattened.
GlobalOrderingWitness ==
  \E r \in Requests :
    /\ Flattened(r) /\ Traceable(rq[r].body)
    /\ Len(rq[r].body) = 3
    /\ \A i \in 1..3 : HasDeletes(r, i) /\ HasInserts(r, i)
    /\ Len(rq[r].flattened) >= 3

InsertBatch(items) == [inserts |-> items, deletes |-> <<>>]

DeleteBatch(items) == [inserts |-> <<>>, deletes |-> items]

\* Two changesets: the first only inserts t, the second only deletes t.
InsertThenDelete(t) ==
  << InsertBatch(<< Quad(t, TEMP_GRAPH_INSERTS) >>), DeleteBatch(<< Quad(t, TEMP_GRAPH_DELETES) >>) >>

\* C16: two changesets, the first inserting only fact A and the second
\* deleting only fact A, are flattened to exactly the two batches
\* [insert-batch({A}), delete-batch({A})], in the order of the changesets.
InsertDeleteKept ==
  \A r \in Requests :
    Flattened(r) =>
      \A t \in Triples :
        rq[r].body = InsertThenDelete(t) =>
          rq[r].flattened = << InsertBatch(<< Quad(t, TEMP_GRAPH_INSERTS) >>),
                               DeleteBatch(<< Quad(t, TEMP_GRAPH_DELETES) >>) >>

\* The body that inserts the name and then deletes it has been flattened.
InsertDeleteKeptWitness ==
  \E r \in Requests : Flattened(r) /\ rq[r].body = InsertThenDelete(HasName)

\* C16 as stated: the two changesets are flattened to exactly
\* [delete-batch({A}), insert-batch({A})].
InsertDeleteSwapped ==
  \A r \in Requests :
    Flattened(r) =>
      \A t \in Triples :
        rq[r].body = InsertThenDelete(t) =>
          rq[r].flattened = << DeleteBatch(<< Quad(t, TEMP_GRAPH_DELETES) >>),
                               InsertBatch(<< Quad(t, TEMP_GRAPH_INSERTS) >>) >>

\* The kind of a batch.
IsInsertBatch(b) == Len(b.inserts) > 0

IsDeleteBatch(b) == Len(b.deletes) > 0

\* C17: every batch of the flattened changesets is non-empty and holds only
\* inserts or only deletes, and no two adjacent batches are of the same kind.
PureBatches ==
  \A r \in Requests :
    Flattened(r) =>
      /\ \A k \in 1..Len(rq[r].flattened) :
           IsInsertBatch(rq[r].flattened[k]) # IsDeleteBatch(rq[r].flattened[k])
      /\ \A k \in 1..(Len(rq[r].flattened) - 1) :
           IsInsertBatch(rq[r].flattened[k]) # IsInsertBatch(rq[r].flattened[k + 1])

\* Three changesets were flattened into two batches: two consecutive
\* changesets of the same kind were merged.
PureBatchesWitness ==
  \E r \in Requests :
    /\ Flattened(r)
    /\ Len(rq[r].body) = 3
    /\ Len(rq[r].flattened) = 2
    /\ \E k \in 1..2 : Len(rq[r].flattened[k].inserts) = 2 \/ Len(rq[r].flattened[k].deletes) = 2

(***************************************************************************)
(* Batches of deleteData.                                                  *)
(***************************************************************************)
\* Request r takes the step in which deleteFunction throws its error.
DeleteFunctionThrows(r) ==
  /\ rq[r].pc \in {"deleteData", "deleteDataStrings"}
  /\ rq[r].error = "none"
  /\ rq'[r].error = "fatal"

\* Only the poisoned triple has made updates fail: the store was never down.
OnlyPoison == storeUp /\ budget.outages = MaxOutages /\ poisoned # {}

\* The triples of deleteFunction before index start, and from start on.
Before(q) == {q.triples[i] : i \in 1..q.start}

FromStart(q) == {q.triples[i] : i \in (q.start + 1)..Len(q.triples)}

\* C18: with one triple whose deletion always fails, deleteFunction throws
\* only after the batch size has shrunk to 1 and the batch is the poisoned
\* triple; at that point the triples before it are deleted from the graph
\* (unless staged again by a delta not yet processed), the poisoned triple
\* and the triples after it are still there, and handling the error leaves
\* the store as it is.
PoisonedFact ==
  [][\A r \in Requests :
       /\ (DeleteFunctionThrows(r) /\ OnlyPoison) =>
            /\ rq[r].batchSize = 1
            /\ Batch(rq[r]) = poisoned
            /\ \A t \in Before(rq[r]) :
                 Quad(t, rq[r].graph) \in triplestore' => t \in StagedAgainIn(rq[r].graph)
            /\ \A t \in FromStart(rq[r]) : Quad(t, rq[r].graph) \in triplestore'
       /\ (rq[r].error = "fatal" /\ rq'[r] # rq[r]) => triplestore' = triplestore]_vars

\* A run has ended in the fatal error, the store never having been down: of
\* the three triples of the deletes graph the first is deleted, the second
\* is the poisoned one, and it and the third are still there.
PoisonedFactWitness ==
  \E r \in Requests :
    /\ rq[r].error = "fatal"
    /\ OnlyPoison
    /\ poisoned = {HasName}
    /\ Quad(IsAssociation, TEMP_GRAPH_DELETES) \notin triplestore
    /\ Quad(HasName, TEMP_GRAPH_DELETES) \in triplestore
    /\ Quad(IsSite, TEMP_GRAPH_DELETES) \in triplestore
    /\ budget.deltas = MaxDeltas

\* C19: the error deleteFunction throws when a batch of size 1 fails names
\* the failing triple, its subject, predicate and object, in its message.
ErrorNamesFact ==
  [][\A r \in Requests :
       DeleteFunctionThrows(r) =>
         \E i \in 1..Len(rq'[r].message) :
           rq'[r].message[i] = TripleString(rq[r].triples[rq[r].start + 1])]_vars

(***************************************************************************)
(* Results of a run that fails.                                            *)
(***************************************************************************)
\* Request r takes the step in which a store failure ends its run.
RunFails(r) == rq[r].pc \in CriticalSection /\ rq[r].error = "none" /\ rq'[r].error # "none"

\* The run of q has moved a subject to an organisation graph.
HasMoved(q) == \E i \in 1..Len(q.results.inserts) : q.results.inserts[i].success

\* C20: a run that fails after it has moved a subject still returns the
\* results of the work done, and what it moved to the organisation graphs
\* stays there.
PartialResults ==
  [][\A r \in Requests :
       (RunFails(r) /\ HasMoved(rq[r])) =>
         /\ rq'[r].results = rq[r].results
         /\ {x \in triplestore : x.graph.prefix = ORGANISATION_GRAPH_PREFIX} \subseteq triplestore']_vars

(***************************************************************************)
(* Scans.                                                                  *)
(***************************************************************************)
\* The run of request r has returned its results.
Returned(r) == rq[r].pc = "done" /\ rq[r].error = "none"

\* The follow-up scan of the inserts graph is scheduled or has started.
FollowUp == scanAndProcessTimer \/ \E r \in Requests : rq[r].kind = "follow-up"

\* C21: once a run that has moved at least one subject to its organisation
\* graph has returned, a follow-up scan of the inserts graph (without
\* deletes) is scheduled or running.
FollowUpScheduled == \A r \in Requests : (Returned(r) /\ HasMoved(rq[r])) => FollowUp

\* A result, whatever the order the organisations are listed in.
Outcome(res) == [res EXCEPT !.organisationUUIDs = Range(@)]

\* The results of a run that report a failure for a subject or a triple.
Failed(q) ==
  {Outcome(q.results.inserts[i]) :
     i \in {j \in 1..Len(q.results.inserts) : ~q.results.inserts[j].success}}
    \cup {Outcome(q.results.deletes[i]) : i \in 1..Len(q.results.deletes)}

IsScan(q) == q.kind \in ScanKinds

\* C22: with nothing staged and nothing changed since a scan has returned,
\* the next scan changes nothing in the store and, when it returns, reports
\* the same failures as the scan before it.
Idempotence ==
  [][\A r1, r2 \in Requests :
       (r1 < r2 /\ IsScan(rq[r1]) /\ Returned(r1) /\ IsScan(rq'[r2])) =>
         /\ triplestore' = triplestore
         /\ (rq'[r2].pc = "done" /\ rq'[r2].error = "none") =>
              Failed(rq'[r2]) = Failed(rq[r1])]_vars

\* The scan of the start of the process and the scan of /manual-dispatch.
FullScan(q) == q.kind \in {"startup", "manual-dispatch"}

\* Request r takes a step of its own that raises no error.
Proceeds(r) == rq'[r] # rq[r] /\ rq'[r].error = "none"

\* The subjects that have a triple in the inserts graph of the store.
StagedSubjects(store) ==
  {x.subject : x \in {y \in store : y.graph = TEMP_GRAPH_INSERTS}}

\* dispatch has the subject among its subjectsWithTypes: the run of q is
\* resolving a row of that subject, still has one to do, or has a result
\* for it.
Dispatches(q, s) ==
  \/ q.row.subject = s
  \/ \E row \in q.rows : row.subject = s
  \/ \E i \in 1..Len(q.results.inserts) : q.results.inserts[i].subject = s

\* C23: the scan of the start of the process and the scan of
\* /manual-dispatch both begin, once they hold the lock, with the deletes
\* graph: every quad of it goes to deleteTriples; then every subject that
\* has a triple in the inserts graph goes to dispatch, whether the store
\* holds an rdf:type for it or not.  Every step of the two is taken while
\* the lock is held.
FullScans ==
  [][\A r \in Requests :
       (FullScan(rq[r]) /\ Proceeds(r)) =>
         /\ rq[r].pc \in {"acquired", "resumed"} => rq'[r].pc = "getTriplesAndAllGraphs"
         /\ rq[r].pc = "getTriplesAndAllGraphs" =>
              \A x \in triplestore :
                x.graph = TEMP_GRAPH_DELETES => x \in rq'[r].storeWithAllGraphs
         /\ rq[r].pc = "getInsertSubjectsWithType" =>
              \A s \in StagedSubjects(triplestore) : Dispatches(rq'[r], s)
         /\ rq[r].pc \in CriticalSection =>
              lock.acquired /\ \A o \in Requests \ {r} : rq[o].pc \notin CriticalSection]_vars

(***************************************************************************)
(* Resolution of the staged subjects.                                      *)
(***************************************************************************)
\* The results the run of q holds for a row of subjectsWithTypes.
ResultsFor(q, row) ==
  {q.results.inserts[i] :
     i \in {j \in 1..Len(q.results.inserts) :
              q.results.inserts[j].subject = row.subject /\ q.results.inserts[j].type = row.type}}

\* C24: when the store rejects a path query of getOrganisationUUIDs, the
\* step produces no result for the subject, changes nothing in the store,
\* and leaves dispatch with the store's error.
ResolverFailure ==
  [][\A r \in Requests :
       (rq[r].pc = "getOrganisationUUIDs" /\ ~storeUp /\ rq'[r] # rq[r]) =>
         /\ rq'[r].error = "transient"
         /\ rq'[r].pc = "done"
         /\ ResultsFor(rq'[r], rq[r].row) = {}
         /\ triplestore' = triplestore]_vars

\* A run has ended with the error of a rejected path query, and the
\* association it was resolving is still staged and in no organisation graph.
ResolverFailureWitness ==
  \E r \in Requests :
    /\ rq[r].error = "transient" /\ rq[r].thrownAt = "getOrganisationUUIDs"
    /\ Quad(IsAssociation, TEMP_GRAPH_INSERTS) \in triplestore
    /\ \A u \in UUIDs : Quad(IsAssociation, OrganisationGraph(u)) \notin triplestore
    /\ rq[r].results = NoResults

\* Request r takes the step in which its run returns its results.
Returns(r) == rq[r].pc \in CriticalSection /\ rq'[r].pc = "done" /\ rq'[r].error = "none"

\* The subjects of the inserts graph the run of q had to process: all of
\* them for a scan, those of its changesets for a delta.
Processed(q) ==
  IF IsScan(q) THEN Subjects
  ELSE {x.subject : x \in UNION {Range(q.flattened[i].inserts) : i \in 1..Len(q.flattened)}}

\* The subjects that have a triple in the inserts graph of the store which
\* no delta still to be processed has put there.
LeftStaged(store) ==
  {x.subject : x \in {y \in store : /\ y.graph = TEMP_GRAPH_INSERTS
                                     /\ TripleOf(y) \notin StagedAgainIn(TEMP_GRAPH_INSERTS)}}

\* C25: when a run returns, every subject it had to process that still has
\* facts in the inserts graph has a result in what the run returns, also a
\* subject for which the store holds no rdf:type.
NoSilentDrop ==
  [][\A r \in Requests :
       Returns(r) =>
         \A s \in Processed(rq[r]) \cap LeftStaged(triplestore') :
           \E i \in 1..Len(rq'[r].results.inserts) : rq'[r].results.inserts[i].subject = s]_vars

(***************************************************************************)
(* The loop of deleteFunction.                                             *)
(***************************************************************************)
\* The request is in the loop of deleteFunction, awaiting one of its updates.
InDeleteFunction(q) == q.pc \in {"deleteData", "deleteDataStrings"}

\* q2 is in the call of deleteFunction that q1 is in.
SameCall(q1, q2) ==
  /\ InDeleteFunction(q1) /\ InDeleteFunction(q2)
  /\ q2.triples = q1.triples /\ q2.graph = q1.graph /\ q2.ret = q1.ret
  /\ q2.start >= q1.start

\* The update request r is awaiting is rejected, is accepted.
UpdateRejected(r) ==
  \/ rq[r].pc = "deleteData" /\ ~Deletes(Batch(rq[r]))
  \/ rq[r].pc = "deleteDataStrings" /\ ~Deletes(StringTyped(Batch(rq[r])))

\* The update request r is awaiting is the last of its batch and is accepted.
BatchDeleted(r) ==
  \/ rq[r].pc = "deleteData" /\ Deletes(Batch(rq[r])) /\ StringTyped(Batch(rq[r])) = {}
  \/ rq[r].pc = "deleteDataStrings" /\ Deletes(StringTyped(Batch(rq[r])))

\* C26: deleteFunction starts at offset 0 with the configured batch size;
\* after a failed batch of a size above 1 the next attempt is at the same
\* offset with half the size, rounded up, so never below 1; after a
\* successful batch the offset is past the batch and the size is the
\* configured one again.
BatchingRule ==
  [][\A r \in Requests :
       rq'[r] # rq[r] =>
         /\ (InDeleteFunction(rq'[r]) /\ ~SameCall(rq[r], rq'[r])) =>
              rq'[r].start = 0 /\ rq'[r].batchSize = env.BATCH_SIZE
         /\ (InDeleteFunction(rq[r]) /\ UpdateRejected(r) /\ rq[r].batchSize > 1) =>
              /\ SameCall(rq[r], rq'[r])
              /\ rq'[r].pc = "deleteData"
              /\ rq'[r].start = rq[r].start
              /\ rq'[r].batchSize = (rq[r].batchSize + 1) \div 2
              /\ rq'[r].batchSize >= 1
         /\ (InDeleteFunction(rq[r]) /\ BatchDeleted(r)
               /\ rq[r].start + rq[r].batchSize < Len(rq[r].triples)) =>
              /\ SameCall(rq[r], rq'[r])
              /\ rq'[r].pc = "deleteData"
              /\ rq'[r].start = rq[r].start + rq[r].batchSize
              /\ rq'[r].batchSize = env.BATCH_SIZE]_vars

\* A call of deleteFunction is past its first triple and, after a failed
\* batch, at half the configured size.
BatchingRuleWitness ==
  \E r \in Requests :
    /\ InDeleteFunction(rq[r])
    /\ rq[r].start > 0
    /\ rq[r].batchSize < env.BATCH_SIZE
    /\ rq[r].start + rq[r].batchSize < Len(rq[r].triples)

\* The call of deleteFunction request r is in returns without error.
DeleteFunctionReturns(r) ==
  /\ InDeleteFunction(rq[r])
  /\ rq'[r] # rq[r]
  /\ rq'[r].error = "none"
  /\ ~SameCall(rq[r], rq'[r])

\* The batches for which deleteTriplesFromGraphWithoutBatching has returned
\* once the update request r is awaiting is accepted.
SuccessfulBatches(r) == Append(rq[r].batches, Batch(rq[r]))

\* C27: when a call of deleteFunction returns without error, whatever
\* batches failed on the way, every fact of its input was in exactly one
\* successful batch.
ExactlyOneBatch ==
  [][\A r \in Requests :
       DeleteFunctionReturns(r) =>
         /\ BatchDeleted(r)
         /\ \A i \in 1..Len(rq[r].triples) :
              Cardinality({k \in 1..Len(SuccessfulBatches(r)) :
                             rq[r].triples[i] \in SuccessfulBatches(r)[k]}) = 1]_vars

\* A call of deleteFunction is about to return: batches were deleted, the
\* last batch failed and is accepted at half the size.
ExactlyOneBatchWitness ==
  \E r \in Requests :
    /\ InDeleteFunction(rq[r])
    /\ BatchDeleted(r)
    /\ rq[r].batches # <<>>
    /\ rq[r].batchSize < env.BATCH_SIZE
    /\ rq[r].start + rq[r].batchSize >= Len(rq[r].triples)

\* The call of deleteFunction request r is in ends.
DeleteFunctionEnds(r) ==
  /\ InDeleteFunction(rq[r])
  /\ rq'[r] # rq[r]
  /\ ~SameCall(rq[r], rq'[r])

\* C28: whatever the input and whichever updates the store rejects, a call
\* of deleteFunction ends: with every triple of its input in a deleted batch,
\* or with the fatal error of a batch of one triple; whenever a request is
\* in the loop, a moment comes at which none is.
BatchingTerminates ==
  /\ [][\A r \in Requests :
          DeleteFunctionEnds(r) =>
            \/ /\ rq'[r].error = "none"
               /\ BatchDeleted(r)
               /\ UNION Range(SuccessfulBatches(r)) = Range(rq[r].triples)
            \/ /\ rq'[r].error = "fatal"
               /\ UpdateRejected(r)
               /\ rq[r].batchSize = 1]_vars
  /\ (\E r \in Requests : InDeleteFunction(rq[r]))
       ~> (\A r \in Requests : ~InDeleteFunction(rq[r]))

\* A call of deleteFunction that has deleted batches is about to end with
\* the fatal error: the store rejects its batch of one triple.
BatchingTerminatesWitness ==
  \E r \in Requests :
    /\ InDeleteFunction(rq[r])
    /\ rq[r].batches # <<>>
    /\ rq[r].batchSize = 1
    /\ UpdateRejected(r)

(***************************************************************************)
(* The delay before the updates.                                           *)
(***************************************************************************)
\* The request is about to send an INSERT DATA or a DELETE DATA.
SendsUpdate(q) == q.pc \in {"insertData", "deleteData", "deleteDataStrings"}

\* C29: every INSERT DATA and DELETE DATA of insertData and deleteData is
\* sent after a sleep of its own: the request has slept since the update it
\* sent before, also between the batches of one deleteFunction, before a
\* batch that is tried again and before the DELETE DATA for the strings.
QuiescenceDelay == \A r \in Requests : SendsUpdate(rq[r]) => rq[r].slept

\* The literal-valued triples among ts.
Literals(ts) == {t \in ts : t.object.termType = "Literal"}

\* C30: in every DELETE DATA of deleteData, for a move as for deleteTriples,
\* a literal-valued triple is alone: a batch of several triples holds
\* resource-valued triples only.
LiteralsOneByOne ==
  \A r \in Requests :
    (InDeleteFunction(rq[r]) /\ Cardinality(Batch(rq[r])) > 1) =>
      Literals(Batch(rq[r])) = {}

(***************************************************************************)
(* The fatal error.                                                        *)
(***************************************************************************)
\* The entry point of the request has left its try block.
PastTry(q) == q.pc = "done"

\* The update of a batch of one triple is rejected: deleteFunction throws.
DeleteDataThrows(r) ==
  /\ InDeleteFunction(rq[r])
  /\ UpdateRejected(r)
  /\ rq[r].batchSize = 1
  /\ rq'[r] # rq[r]

\* C31: when deleteData throws its fatal error the run is over: the request
\* is past the try statement of its entry point with that error, the step
\* leaves the store alone, and from then on the request never goes back into
\* the pipeline and no step of it changes the store.
FatalAborts ==
  [][\A r \in Requests :
       /\ DeleteDataThrows(r) =>
            /\ rq'[r].error = "fatal"
            /\ PastTry(rq'[r])
            /\ triplestore' = triplestore
       /\ rq[r].error = "fatal" =>
            /\ rq'[r].error = "fatal"
            /\ PastTry(rq'[r])
            /\ rq'[r] # rq[r] => triplestore' = triplestore]_vars

\* A run has ended with the fatal error of deleteData while the deletes
\* graph still holds a triple that the store would let go.
FatalAbortsWitness ==
  \E r \in Requests :
    /\ rq[r].error = "fatal"
    /\ rq[r].pc = "done"
    /\ rq[r].thrownAt \in {"deleteData", "deleteDataStrings"}
    /\ \E x \in triplestore : x.graph = TEMP_GRAPH_DELETES /\ TripleOf(x) \notin poisoned

\* The step is a write of the upstream consumer to a temporary graph.
ByUpstream == budget'.deltas # budget.deltas

\* C32: every INSERT DATA and DELETE DATA is sent by a request that holds
\* the lock while no other request is in its critical section, and the store
\* and the error graph change in no step of the service but the step of
\* such an update: a request writes nothing before it has the lock and
\* nothing once it has released it, also when its run has ended with an
\* error and WRITE_ERRORS is on, for the POST handlers as for the startup
\* scan.
UpdatesUnderGate ==
  [][/\ \A r \in Requests :
          SendsUpdate(rq[r]) =>
            /\ lock.acquired
            /\ InCriticalSection(r)
            /\ \A r2 \in Requests \ {r} : ~InCriticalSection(r2)
     /\ (triplestore' # triplestore \/ errorGraph' # errorGraph) =>
          \/ ByUpstream
          \/ \E r \in Requests : SendsUpdate(rq[r]) /\ rq'[r] # rq[r]]_vars

\* With WRITE_ERRORS on, a run that has deleted a triple from the deletes
\* graph has ended with the fatal error and released the lock to a request
\* that was waiting for it; no error record has been written.
UpdatesUnderGateWitness ==
  \E r1, r2 \in Requests :
    /\ env.WRITE_ERRORS
    /\ rq[r1].pc = "done" /\ rq[r1].error = "fatal"
    /\ \E t \in Triples : Quad(t, TEMP_GRAPH_DELETES) \notin triplestore
    /\ rq[r2].pc = "resumed"
    /\ errorGraph = {}

(***************************************************************************)
(* The order of a move.                                                    *)
(***************************************************************************)
\* The request is in moveSubjectBetweenGraphs, past getDataForSubject.
InMove(q) ==
  \/ q.pc \in {"insertFunction", "insertData"}
  \/ /\ q.pc \in {"deleteFunction", "deleteData", "deleteDataStrings"}
     /\ q.ret \in {"move", "literal"}

\* The triple is in the inserts graph, in the target graph of the move of q.
InStaging(store, t) == Quad(t, TEMP_GRAPH_INSERTS) \in store

InTarget(store, q, t) == Quad(t, OrganisationGraph(Head(q.todo))) \in store

\* C33: while a request is in a move, every triple that the move has
\* fetched is in the inserts graph or in the target graph, before and after
\* every step, the step in which the move fails or ends included; and a step
\* that takes the triple out of the inserts graph finds it in the target
\* graph already.
InsertBeforeRemove ==
  [][\A r \in Requests :
       InMove(rq[r]) =>
         \A t \in rq[r].data :
           /\ InStaging(triplestore, t) \/ InTarget(triplestore, rq[r], t)
           /\ InStaging(triplestore', t) \/ InTarget(triplestore', rq[r], t)
           /\ (InStaging(triplestore, t) /\ ~InStaging(triplestore', t)) =>
                InTarget(triplestore, rq[r], t)]_vars

\* A move has taken one fetched triple out of the inserts graph, another is
\* still in it, and the store is down: the next update of the move fails.
InsertBeforeRemoveWitness ==
  \E r \in Requests :
    /\ InMove(rq[r])
    /\ ~storeUp
    /\ \E t1, t2 \in rq[r].data :
         /\ ~InStaging(triplestore, t1) /\ InTarget(triplestore, rq[r], t1)
         /\ InStaging(triplestore, t2) /\ InTarget(triplestore, rq[r], t2)

(***************************************************************************)
(* Deletes that an aborted run leaves behind.                              *)
(***************************************************************************)
\* The quads of storeWithAllGraphs in organisation graphs whose triple the
\* store also had in the deletes graph when the run looked for the graphs.
DeletionsToDo(q) ==
  {x \in q.storeWithAllGraphs :
     /\ x.graph \in {OrganisationGraph(u) : u \in UUIDs}
     /\ Quad(TripleOf(x), TEMP_GRAPH_DELETES) \in q.storeWithAllGraphs}

\* C34: when the deleteData of deleteTriples throws its fatal error, every
\* triple that is still in an organisation graph it had to be removed from
\* is still in the deletes graph.
StagedDeletionKept ==
  [][\A r \in Requests :
       (InDeleteTriples(rq[r]) /\ DeleteDataThrows(r)) =>
         \A x \in DeletionsToDo(rq[r]) :
           x \in triplestore' => Quad(TripleOf(x), TEMP_GRAPH_DELETES) \in triplestore']_vars

(***************************************************************************)
(* The deletes of a scan and of a delta.                                   *)
(***************************************************************************)
\* The quads of the deletes graph, as a delta delivers them.
FreshDeletes(store) == {x \in store : x.graph = TEMP_GRAPH_DELETES}

\* The quads that deleteTriples hands to deleteData when processDeletes gets
\* the quads of the deletes graph in a changeset, now.
FreshDeleteData(q) ==
  LET deletes == FreshDeletes(triplestore) IN
  UNION { LET fresh == [q EXCEPT !.kind = "delta-deletes",
                                 !.flat = << [inserts |-> <<>>, deletes |-> body] >>]
          IN {q1.storeWithAllGraphs :
                q1 \in DeleteTriples(fresh, deletes, GraphsForTriples(triplestore, deletes))}
          : body \in Orders(deletes) }

\* The scan of request r gets the answer of getTriplesAndAllGraphs.
ScanFindsDeletes(r) ==
  /\ IsScan(rq[r])
  /\ rq[r].pc = "getTriplesAndAllGraphs"
  /\ rq'[r] # rq[r]
  /\ rq'[r].error = "none"
  /\ FreshDeletes(triplestore) # {}

Places(changesets, kind, x) ==
  UNION { {<< i, k >> : k \in {j \in 1..Len(changesets[i][kind]) : changesets[i][kind][j] = x}}
          : i \in 1..Len(changesets) }

\* The quads a delta message can carry.
DeltaQuads == {Quad(t, g) : t \in Triples, g \in {TEMP_GRAPH_INSERTS, TEMP_GRAPH_DELETES}}

\* C37: flattenChangesets loses and adds nothing: every quad is among the
\* inserts of the output as many times as among the inserts of the input,
\* and among the deletes as many times as among the deletes of the input;
\* a quad that the input inserts (deletes) once is in exactly one place.
NothingLostOrAdded ==
  \A r \in Requests :
    Flattened(r) =>
      \A kind \in {"inserts", "deletes"}, x \in DeltaQuads :
        Cardinality(Places(rq[r].flattened, kind, x)) = Cardinality(Places(rq[r].body, kind, x))

\* Three changesets have been merged into two batches, one of which holds a
\* quad that two of the changesets insert.
NothingLostOrAddedWitness ==
  \E r \in Requests, x \in DeltaQuads :
    /\ Flattened(r)
    /\ Len(rq[r].body) = 3
    /\ Len(rq[r].flattened) = 2
    /\ Cardinality(Places(rq[r].body, "inserts", x)) = 2
    /\ \E y \in DeltaQuads : Places(rq[r].body, "deletes", y) # {}

(***************************************************************************)
(* The resolver.                                                           *)
(***************************************************************************)
\* The pathConfigs of the type.
PathsOf(type) == {i \in 1..Len(pta) : pta[i].type = type}

\* The step of r goes from one path query of a row to the next of that row.
NextQuery(r) ==
  /\ rq[r].pc = "getOrganisationUUIDs"
  /\ rq'[r].pc = "getOrganisationUUIDs"
  /\ rq'[r].row = rq[r].row

\* The results that the step of r pushes.
Pushed(r) ==
  {rq'[r].results.inserts[k] :
     k \in (Len(rq[r].results.inserts) + 1)..Len(rq'[r].results.inserts)}

\* C38: getOrganisationUUIDs queries the pathConfigs of the given type, all
\* of them and no other, and returns the union of what the queries found,
\* each organisation once; it returns nothing when the queries find nothing
\* and when the type has no pathConfig.
ResolverUnion ==
  [][\A r \in Requests :
       /\ (rq'[r].pc = "getOrganisationUUIDs" /\ rq'[r] # rq[r]) =>
            LET from == IF NextQuery(r) THEN rq[r].cfg ELSE 0
                found == IF NextQuery(r) THEN Candidates(r) ELSE {} IN
            /\ rq'[r].cfg \in PathsOf(rq'[r].row.type)
            /\ rq'[r].cfg > from
            /\ \A j \in PathsOf(rq'[r].row.type) : ~(from < j /\ j < rq'[r].cfg)
            /\ Range(rq'[r].organisationUUIDs) = found
            /\ Len(rq'[r].organisationUUIDs) = Cardinality(found)
       /\ (Resolves(r) /\ ~NextQuery(r)) =>
            /\ \A j \in PathsOf(rq[r].row.type) : j <= rq[r].cfg
            /\ \/ Candidates(r) = {} /\ Reports(r, NotFound(rq[r].row))
               \/ \E order \in Orders(Candidates(r)) : Reports(r, TooMany(rq[r].row, order))
               \/ /\ rq'[r].pc = "getDataForSubject"
                  /\ rq'[r].todo \in Orders(Candidates(r))
       /\ \A res \in Pushed(r) :
            PathsOf(res.type) = {} => res = NotFound([subject |-> res.subject, type |-> res.type])]_vars

\* The second path query of the site is about to add an organisation to the
\* one that the first has found and that it finds again; and the subject
\* has been reported without organisation for its type without pathConfig.
ResolverUnionWitness ==
  \E r \in Requests :
    /\ rq[r].pc = "getOrganisationUUIDs"
    /\ rq[r].cfg = 4
    /\ rq[r].organisationUUIDs = << "u1" >>
    /\ pathResult[rq[r].row.subject][4] = UUIDs
    /\ NotFound([subject |-> "s1", type |-> Unconfigured]) \in Range(rq[r].results.inserts)

\* The first pathConfig of the type.
FirstOf(type) == CHOOSE i \in PathsOf(type) : \A j \in PathsOf(type) : i <= j

\* The move of r has more than one organisation graph still to fill.
SeveralTargets(q) ==
  /\ q.pc = "getDataForSubject" \/ InMove(q)
  /\ Len(q.todo) > 1

\* C40: with several organisations found for a subject, dispatch moves it to
\* all of them when the first pathConfig of the type has
\* allowedInMultipleOrgs and reports it as found in too many otherwise,
\* whatever the flags of the other pathConfigs of the type and whichever of
\* them found the organisations; a move to several organisation graphs goes
\* on only under such a first pathConfig.
FirstEntryDecides ==
  [][\A r \in Requests :
       /\ (Resolves(r) /\ ~NextQuery(r) /\ Cardinality(Candidates(r)) > 1) =>
            IF pta[FirstOf(rq[r].row.type)].allowedInMultipleOrgs
            THEN /\ rq'[r].pc = "getDataForSubject"
                 /\ rq'[r].todo \in Orders(Candidates(r))
            ELSE \E order \in Orders(Candidates(r)) : Reports(r, TooMany(rq[r].row, order))
       /\ SeveralTargets(rq[r]) => pta[FirstOf(rq[r].row.type)].allowedInMultipleOrgs]_vars

\* The site was found in two organisations by its second pathConfig alone,
\* which allows several; the first does not, and the site is reported.
FirstEntryDecidesWitness ==
  \E r \in Requests :
    /\ ~pta[3].allowedInMultipleOrgs
    /\ pta[4].allowedInMultipleOrgs
    /\ pathResult["s1"][3] = {}
    /\ pathResult["s1"][4] = UUIDs
    /\ \E order \in Orders(UUIDs) :
         TooMany([subject |-> "s1", type |-> Site], order) \in Range(rq[r].results.inserts)

(***************************************************************************)
(* The retry.                                                              *)
(***************************************************************************)
\* A run has ended in the rejection of a query or an update: the error of the
\* store, or the one that deleteFunction throws when its last retry fails.
RunAborted == \E r \in Requests : rq[r].pc = "done" /\ rq[r].error \in {"transient", "fatal"}

\* The store answers from now on and another scan is still to be triggered.
ScansGoOn == storeUp /\ budget.outages = 0 /\ budget.requests > 0

\* The path queries of the types of s lead to the organisation uuid and to
\* no other.
ResolvesToOne(s, uuid) ==
  LET types == TypesOf(triplestore, s) IN
  UNION {pathResult[s][i] : i \in {j \in 1..Len(pta) : pta[j].type \in types}} = {uuid}

\* C39: after a run that a rejected store call has aborted, once the store
\* answers again and scans are still triggered, every triple left in the
\* temporary insert graph whose subject resolves to one organisation gets
\* into the graph of that organisation and out of the temporary insert graph.
RetryMoves ==
  \A t \in Triples, uuid \in UUIDs :
    (RunAborted /\ ScansGoOn /\ InStaging(triplestore, t) /\ ResolvesToOne(t.subject, uuid))
      ~> (~InStaging(triplestore, t) /\ Quad(t, OrganisationGraph(uuid)) \in triplestore)

====
